---- MODULE Spec2Model ----
(***************************************************************************)
(* Bank-statement OCR-to-transaction pipeline of the hackverse repository: *)
(* the HDFC, ICICI and Kotak parsers (cleanOCROutput,                      *)
(* cleanOCROutputSimplified, categorizeTransactions, parseTransactionLine).*)
(*                                                                         *)
(* Representation.  A text is a sequence of lines (the result of           *)
(* split('\n')); a line is the sequence of its whitespace-separated tokens *)
(* (the empty sequence is a blank line).  A token is a record              *)
(*   [k, s, v]:  k = "date"  s = the date format, v = which day            *)
(*               k = "pipe"  the character |                               *)
(*               k = "amt"   a number; v = its value in cents (paise),     *)
(*                           s = its written form: "" two fraction digits, *)
(*                           "int" no fraction part, "(Cr)" / "(Dr)" two   *)
(*                           fraction digits and a direction suffix, "neg" *)
(*                           a minus sign and two fraction digits (v < 0)  *)
(*               k = "date"  v = 1 a calendar day, v = 0 digits in the     *)
(*                           date's format with a month above 12           *)
(*               k = "word"  any other text, s = the text                  *)
(*               k = "glue"  no whitespace between its two neighbours      *)
(* The variable merged holds the records of cleanOCROutput before they are *)
(* joined, each with the range of input lines it was collected from.       *)
(* Amounts are written with standard thousands grouping, and every amount  *)
(* is small enough for a double to hold it to the cent.                    *)
(*                                                                         *)
(* docCode is the code handed to getParser, parser the object it returns   *)
(* (or the object a constructor call builds), error the message of the     *)
(* Error that was raised ("" when none was), and transactions the records  *)
(* parseCategorizedData builds from the categorized text.  calls is the    *)
(* log of the invocations made on parser instances: the operation, the     *)
(* instance, the input and the output of each.                             *)
(*                                                                         *)
(* store is the module-level dataStore object of lib/datastore.js, loads   *)
(* the invocations of loadFromDatabase and loadFromDatabaseServer that are *)
(* waiting at an await, each with the await it waits at, and isClient the  *)
(* answer of isClient() in this runtime.  sinceReset records what happened *)
(* to the store since the last resetDataStore, and each load records       *)
(* whether a resetDataStore ran while it was in flight.  ui holds the      *)
(* loading flag of the upload component and the values it has reported     *)
(* through onProcessComplete.                                              *)
(***************************************************************************)
EXTENDS Integers, Sequences, FiniteSets, TLC

VARIABLES bank, pc, rawText, cleaned, merged, simplified, categorized,
          docCode, parser, error, transactions, calls,
          store, loads, isClient, sinceReset, ui

vars == <<bank, pc, rawText, cleaned, merged, simplified, categorized,
          docCode, parser, error, transactions, calls,
          store, loads, isClient, sinceReset, ui>>

(* Largest number of lines of an input text. *)
MaxLines == 3

(* Largest number of invocations followed on parser instances. *)
MaxCalls == 3

(* Largest number of loads in flight at the same time. *)
MaxLoads == 2

(* null, and a value v held by a field of the data store. *)
NullValue == [null |-> TRUE]
Data(v) == [data |-> v]

(* lib/datastore.js, lines 2-8.  lastLoaded is "null", "fresh" (at most    *)
(* 300000 ms old) or "stale".                                              *)
InitialDataStore ==
  [gstOCROutput |-> NullValue, categorizedOutput |-> NullValue,
   pnlOCROutput |-> NullValue, lastLoaded |-> "null", isLoading |-> FALSE]

(* useState(false) of the loading flag; nothing reported yet. *)
InitialUi == [loading |-> FALSE, reported |-> <<>>]

---------------------------------------------------------------------------
(* Tokens and text helpers *)

Date(fmt, n) == [k |-> "date", s |-> fmt, v |-> n]
Pipe == [k |-> "pipe", s |-> "|", v |-> 0]
Amt(c) == [k |-> "amt", s |-> "", v |-> c]
AmtAs(form, c) == [k |-> "amt", s |-> form, v |-> c]
Word(w) == [k |-> "word", s |-> w, v |-> 0]
Glue == [k |-> "glue", s |-> "", v |-> 0]

Blank == <<>>

IsPipe(t) == t.k = "pipe"

(* [\d,]+\.\d{2} as a whole token: a number with two fraction digits and   *)
(* nothing after it.                                                       *)
IsPlainAmount(t) == t.k = "amt" /\ t.s = ""

(* split('\n').filter(line => line.trim()) *)
NonBlank(text) == SelectSeq(text, LAMBDA l : l # Blank)

(* Array.join('\n\n'): one blank line between consecutive elements. *)
RECURSIVE JoinBlank(_)
JoinBlank(ls) ==
  IF Len(ls) <= 1 THEN ls
  ELSE <<Head(ls), Blank>> \o JoinBlank(Tail(ls))

(* Array.join('\n') *)
JoinLines(ls) == ls

(* The number of | characters of a line. *)
PipeCount(line) == Cardinality({i \in 1..Len(line) : IsPipe(line[i])})

Abs(x) == IF x < 0 THEN -x ELSE x

TypeWord(t) == Word(t)

---------------------------------------------------------------------------
(* BaseParser, the three parser classes and getParser *)

(* The five methods BaseParser declares and leaves to its subclasses. *)
Methods ==
  {"getPatterns", "cleanOCROutput", "cleanOCROutputSimplified",
   "categorizeTransactions", "parseTransactionLine"}

(* A class, by the methods it defines itself. *)
BaseParser == [class |-> "BaseParser", overrides |-> {}]
HDFCParser == [class |-> "HDFCParser", overrides |-> Methods]
KotakParser == [class |-> "KotakParser", overrides |-> Methods]
ICICIParser == [class |-> "ICICIParser", overrides |-> Methods]
(* A class that extends BaseParser and defines the methods ov only. *)
Subclass(ov) == [class |-> "Subclass", overrides |-> ov]

NoParser == [class |-> "none", overrides |-> {}]
NoError == ""

(* BaseParser's constructor: this.constructor === BaseParser throws; the   *)
(* subclasses' constructors only call it.                                  *)
ConstructorError(cls) ==
  IF cls.class = "BaseParser"
    THEN "BaseParser is an abstract class and cannot be instantiated directly"
    ELSE NoError

(* Mutant: BaseParser's methods return without throwing. *)
MethodErrorSilent(cls, m) == NoError

(* A method call on an instance of cls: the class's own method if it       *)
(* defines one, else BaseParser's, which throws.                           *)
MethodError(cls, m) ==
  IF m \in cls.overrides THEN NoError
  ELSE "method must be implemented by subclass"

(* String.toUpperCase over the codes of DocCodes. *)
ToUpperCase(code) ==
  CASE code \in {"HDFC", "hdfc"} -> "HDFC"
    [] code \in {"KOTAK", "Kotak"} -> "KOTAK"
    [] code \in {"ICICI", "icici"} -> "ICICI"
    [] code = "sbi" -> "SBI"
    [] OTHER -> code

(* Mutant: the switch's default returns the HDFC parser. *)
GetParserDefaulting(code) ==
  IF code = "" THEN [parser |-> NoParser, error |-> "Document code cannot be empty."]
  ELSE CASE ToUpperCase(code) = "KOTAK" -> [parser |-> KotakParser, error |-> NoError]
         [] ToUpperCase(code) = "ICICI" -> [parser |-> ICICIParser, error |-> NoError]
         [] OTHER -> [parser |-> HDFCParser, error |-> NoError]

(* getParser: the object returned and the Error thrown. *)
GetParser(code) ==
  IF code = "" THEN [parser |-> NoParser, error |-> "Document code cannot be empty."]
  ELSE CASE ToUpperCase(code) = "HDFC" -> [parser |-> HDFCParser, error |-> NoError]
         [] ToUpperCase(code) = "KOTAK" -> [parser |-> KotakParser, error |-> NoError]
         [] ToUpperCase(code) = "ICICI" -> [parser |-> ICICIParser, error |-> NoError]
         [] OTHER -> [parser |-> NoParser, error |-> "Parser not implemented for code"]

(* The parser getParser returns for a supported code. *)
ParserOf(b) == GetParser(b).parser

---------------------------------------------------------------------------
(* HDFC: categorizeTransactions *)

HdfcDate == "DD/MM/YY"

IsHdfcDate(t) == t.k = "date" /\ t.s = HdfcDate

(* /^(\d{2}\/\d{2}\/\d{2})\s*\|\s*(.+?)\s*\|\s*([\d,]+\.\d{2})\s+([\d,]+\.\d{2})$/ *)
(* The anchored tail forces the second | to be the third token from the    *)
(* end; the description is what lies between the two and may hold any      *)
(* token, a | included.                                                    *)
HdfcSimplifiedMatch(line) ==
  /\ Len(line) >= 5
  /\ IsHdfcDate(line[1])
  /\ IsPipe(line[2])
  /\ IsPipe(line[Len(line) - 2])
  /\ IsPlainAmount(line[Len(line) - 1])
  /\ IsPlainAmount(line[Len(line)])

HdfcDesc(line) == SubSeq(line, 3, Len(line) - 3)
HdfcAmount(line) == line[Len(line) - 1].v
HdfcBalance(line) == line[Len(line)].v

(* The tolerance 0.01 of the reconciliation, in cents. *)
ToleranceCents == 1

(* JavaScript numbers are IEEE-754 doubles.  parseFloat("900.01") is not   *)
(* 900.01, so a difference that is exactly 0.01 in decimal arithmetic is   *)
(* computed a few ulps below or above 0.01, and two differences that are   *)
(* equal in decimal arithmetic need not be equal as doubles.  Differences  *)
(* of 0 and of 0.02 or more, and unequal decimal differences, are decided  *)
(* as in decimal arithmetic.  Over the amounts and balances of             *)
(* HdfcAmountBalance, a one-cent difference is computed below 0.01 except  *)
(* at the triples (in cents) of the ...RoundsAbove sets, and the only      *)
(* equal decimal differences that are unequal as doubles are those of the  *)
(* ...RoundsLower sets.                                                    *)
(*   <<previous balance, amount, balance>> for debitDiff and creditDiff,   *)
(*   <<balance, next amount, next balance>> for the first record.          *)
DebitDiffRoundsAbove == {}
CreditDiffRoundsAbove == {<<12, 1, 12>>}
FirstDiffRoundsAbove ==
  {<<12, 1, 12>>, <<40000, 1, 40000>>, <<50000, 1, 50000>>,
   <<90000, 1, 90000>>, <<90001, 1, 90001>>, <<90001, 2, 90000>>,
   <<90002, 1, 90002>>, <<90002, 2, 90001>>, <<100000, 1, 100000>>,
   <<105000, 1, 105000>>}
DebitDiffRoundsLower == {<<12, 1, 12>>}
CreditDiffRoundsLower == {<<12, 2, 12>>}

(* Math.abs(expectedBalanceIfDebit - currentBalanceNum), in decimal arithmetic *)
DebitDiffExact(prev, amt, cur) == Abs((prev - amt) - cur)
(* Math.abs(expectedBalanceIfCredit - currentBalanceNum), in decimal arithmetic *)
CreditDiffExact(prev, amt, cur) == Abs((prev + amt) - cur)

(* Mutant: a tolerance of 0.05 instead of 0.01. *)
DebitDiffBelowWideTolerance(prev, amt, cur) ==
  DebitDiffExact(prev, amt, cur) < 5 * ToleranceCents

(* debitDiff < 0.01 *)
DebitDiffBelowTolerance(prev, amt, cur) ==
  \/ DebitDiffExact(prev, amt, cur) < ToleranceCents
  \/ /\ DebitDiffExact(prev, amt, cur) = ToleranceCents
     /\ <<prev, amt, cur>> \notin DebitDiffRoundsAbove

(* creditDiff < 0.01 *)
CreditDiffBelowTolerance(prev, amt, cur) ==
  \/ CreditDiffExact(prev, amt, cur) < ToleranceCents
  \/ /\ CreditDiffExact(prev, amt, cur) = ToleranceCents
     /\ <<prev, amt, cur>> \notin CreditDiffRoundsAbove

(* debitDiff < creditDiff *)
DebitDiffLower(prev, amt, cur) ==
  \/ DebitDiffExact(prev, amt, cur) < CreditDiffExact(prev, amt, cur)
  \/ /\ DebitDiffExact(prev, amt, cur) = CreditDiffExact(prev, amt, cur)
     /\ <<prev, amt, cur>> \in DebitDiffRoundsLower

(* creditDiff < debitDiff *)
CreditDiffLower(prev, amt, cur) ==
  \/ CreditDiffExact(prev, amt, cur) < DebitDiffExact(prev, amt, cur)
  \/ /\ CreditDiffExact(prev, amt, cur) = DebitDiffExact(prev, amt, cur)
     /\ <<prev, amt, cur>> \in CreditDiffRoundsLower

(* The fallback of line 220: the sign of the balance change. *)
HdfcBalanceChangeType(prev, cur) == IF cur < prev THEN "DEBIT" ELSE "CREDIT"

(* Mutant: the two labels of the reconciliation exchanged. *)
HdfcReconcileSwapped(prev, amt, cur) ==
  IF DebitDiffLower(prev, amt, cur) /\ DebitDiffBelowTolerance(prev, amt, cur)
    THEN "CREDIT"
  ELSE IF CreditDiffLower(prev, amt, cur) /\ CreditDiffBelowTolerance(prev, amt, cur)
    THEN "DEBIT"
  ELSE HdfcBalanceChangeType(prev, cur)

(* Lines 203-221: the record has a parsable predecessor. *)
HdfcReconcile(prev, amt, cur) ==
  IF DebitDiffLower(prev, amt, cur) /\ DebitDiffBelowTolerance(prev, amt, cur)
    THEN "DEBIT"
  ELSE IF CreditDiffLower(prev, amt, cur) /\ CreditDiffBelowTolerance(prev, amt, cur)
    THEN "CREDIT"
  ELSE HdfcBalanceChangeType(prev, cur)

(* Math.abs(balanceDiff - nextAmountNum) < 0.01, balanceDiff = current - next *)
FirstDiffBelowTolerance(cur, nextAmt, nextBal) ==
  \/ Abs((cur - nextBal) - nextAmt) < ToleranceCents
  \/ /\ Abs((cur - nextBal) - nextAmt) = ToleranceCents
     /\ <<cur, nextAmt, nextBal>> \notin FirstDiffRoundsAbove

(* Mutant: the lookahead concludes DEBIT where the code concludes CREDIT. *)
HdfcFirstTypeSwapped(cur, nextAmt, nextBal) ==
  IF FirstDiffBelowTolerance(cur, nextAmt, nextBal) /\ cur > nextBal
    THEN "DEBIT"
    ELSE "CREDIT"

(* Lines 179-191: the first record, with a parsable second line. *)
HdfcFirstType(cur, nextAmt, nextBal) ==
  IF FirstDiffBelowTolerance(cur, nextAmt, nextBal) /\ cur > nextBal
    THEN "CREDIT"
    ELSE "DEBIT"

(* Mutant: no lookahead, the first record is always UNKNOWN. *)
HdfcTransactionTypeNoLookahead(i, lines) ==
  IF i = 1
    THEN "UNKNOWN"
    ELSE IF HdfcSimplifiedMatch(lines[i - 1])
           THEN HdfcReconcile(HdfcBalance(lines[i - 1]), HdfcAmount(lines[i]),
                              HdfcBalance(lines[i]))
           ELSE "UNKNOWN"

(* Lines 170-225: the type of line i (1-based) of the non-blank lines. *)
HdfcTransactionType(i, lines) ==
  IF i = 1
    THEN IF Len(lines) >= 2 /\ HdfcSimplifiedMatch(lines[2])
           THEN HdfcFirstType(HdfcBalance(lines[1]), HdfcAmount(lines[2]),
                              HdfcBalance(lines[2]))
           ELSE "UNKNOWN"
    ELSE IF HdfcSimplifiedMatch(lines[i - 1])
           THEN HdfcReconcile(HdfcBalance(lines[i - 1]), HdfcAmount(lines[i]),
                              HdfcBalance(lines[i]))
           ELSE "UNKNOWN"

(* Mutant: a line that cannot be parsed is dropped. *)
HdfcCategorizeLineDropping(i, lines) ==
  IF ~HdfcSimplifiedMatch(lines[i])
    THEN Blank
    ELSE <<lines[i][1], Pipe>> \o HdfcDesc(lines[i])
         \o <<Pipe, Amt(Abs(HdfcAmount(lines[i]))), Pipe,
              TypeWord(HdfcTransactionType(i, lines))>>

(* Lines 156-230: the output line of line i. *)
HdfcCategorizeLine(i, lines) ==
  IF ~HdfcSimplifiedMatch(lines[i])
    THEN lines[i]
    ELSE <<lines[i][1], Pipe>> \o HdfcDesc(lines[i])
         \o <<Pipe, Amt(Abs(HdfcAmount(lines[i]))), Pipe,
              TypeWord(HdfcTransactionType(i, lines))>>

HdfcCategorizeTransactions(text) ==
  LET lines == NonBlank(text)
  IN JoinBlank([i \in 1..Len(lines) |-> HdfcCategorizeLine(i, lines)])

---------------------------------------------------------------------------
(* Inputs of the HDFC categorizer *)

(* <<amount, balance>> of the simplified lines, in cents: 0.12, 900.00,    *)
(* 900.01 and 1000.00 with the amounts 0.00, 0.01 and 100.00, and the      *)
(* records that complete the sequences 1000.00, 900.00, 1050.00 and        *)
(* 500.00, 400.00 and the two-cent mismatches.                             *)
HdfcAmountBalance ==
  ({0, 1, 10000} \X {12, 90000, 90001, 100000})
    \cup {<<15000, 105000>>, <<10000, 50000>>, <<10000, 40000>>,
          <<2, 12>>, <<2, 90001>>, <<10000, 90002>>}

HdfcSimplifiedLine(amt, bal) ==
  <<Date(HdfcDate, 1), Pipe, Word("UPI-SHOP"), Pipe, Amt(amt), Amt(bal)>>

(* A line the categorizer's pattern does not match. *)
HdfcJunkLine == <<Word("Opening"), Word("balance")>>

HdfcSimplifiedLines ==
  {HdfcSimplifiedLine(ab[1], ab[2]) : ab \in HdfcAmountBalance}
    \cup {HdfcJunkLine, Blank}

TextsOf(lineSet, n) == UNION {[1..m -> lineSet] : m \in 0..n}

---------------------------------------------------------------------------
(* Specification of the HDFC categorizer on arbitrary simplified text *)

HdfcInit ==
  /\ bank = "HDFC"
  /\ pc = "simplified"
  /\ rawText = <<>>
  /\ cleaned = <<>>
  /\ merged = <<>>
  /\ simplified \in TextsOf(HdfcSimplifiedLines, MaxLines)
  /\ categorized = <<>>
  /\ docCode = bank
  /\ parser = ParserOf(bank)
  /\ error = NoError
  /\ transactions = <<>>
  /\ calls = <<>>
  /\ store = InitialDataStore
  /\ loads = <<>>
  /\ isClient = TRUE
  /\ sinceReset = "none"
  /\ ui = InitialUi

HdfcCategorize ==
  /\ bank = "HDFC"
  /\ pc = "simplified"
  /\ categorized' = HdfcCategorizeTransactions(simplified)
  /\ pc' = "done"
  /\ UNCHANGED <<bank, rawText, cleaned, merged, simplified,
               docCode, parser, error, transactions, calls,
          store, loads, isClient, sinceReset, ui>>

HdfcNext == HdfcCategorize

SpecHdfcCategorize == HdfcInit /\ [][HdfcNext]_vars

---------------------------------------------------------------------------
(* Raw OCR text: vocabulary and line lengths *)

KotakDate == "DD-MM-YYYY"
IciciDate == "DD/MM/YYYY"

IsKotakDate(t) == t.k = "date" /\ t.s = KotakDate
IsIciciDate(t) == t.k = "date" /\ t.s = IciciDate

IsWord(t, w) == t.k = "word" /\ t.s = w
IsWordIn(t, ws) == t.k = "word" /\ t.s \in ws

(* An amount with a direction suffix, \d+\.\d{2}\((Cr|Dr)\) *)
IsSuffixedAmount(t) == t.k = "amt" /\ t.s \in {"(Cr)", "(Dr)"}

(* The number of characters of a token as it is written. *)
TokenLength(t) ==
  CASE t.k = "word" -> Len(t.s)
    [] t.k = "pipe" -> 1
    [] t.k = "glue" -> 0
    [] t.k = "date" -> IF t.s = HdfcDate THEN 8 ELSE 10
    [] t.k = "amt" ->
         (IF t.s = "int" THEN 1 ELSE 4)
         + (IF Abs(t.v) >= 1000 THEN 1 ELSE 0) + (IF Abs(t.v) >= 10000 THEN 1 ELSE 0)
         + (IF Abs(t.v) >= 100000 THEN 2 ELSE 0)
         + (IF IsSuffixedAmount(t) THEN 4 ELSE 0)
         + (IF t.s = "neg" THEN 1 ELSE 0)

(* line.length: the tokens and one space between two tokens, none around   *)
(* a glue.                                                                 *)
RECURSIVE LineLength(_)
LineLength(line) ==
  IF line = <<>> THEN 0
  ELSE TokenLength(Head(line))
       + (IF Len(line) >= 2 /\ Head(line).k # "glue" /\ line[2].k # "glue"
            THEN 1 ELSE 0)
       + LineLength(Tail(line))

(* Some token of the line is one of the words ws; all its tokens are. *)
HasWord(line, ws) == \E i \in 1..Len(line) : IsWordIn(line[i], ws)
OnlyWords(line, ws) == \A i \in 1..Len(line) : IsWordIn(line[i], ws)

---------------------------------------------------------------------------
(* HDFC: getPatterns and the line predicates of cleanOCROutput *)

(* patterns.transaction: /^\d{2}\/\d{2}\/\d{2}\s*\|/ *)
HdfcTransactionPattern(line) ==
  Len(line) >= 2 /\ IsHdfcDate(line[1]) /\ IsPipe(line[2])

(* isHeaderLine: of the words of the vocabulary the headers patterns match *)
(* RTGS/NEFT (/RTGS\/NEFT/i, not anchored).                                *)
HdfcIsHeaderLine(line) == HasWord(line, {"RTGS/NEFT"})

(* The words of the vocabulary made of the characters [A-Z0-9@\-] only. *)
HdfcCodeWords == {"@OKAXIS", "UPI-SHOP", "MR", "JOHN"}

(* isContinuationLine, lines 71-75: a continuation pattern (the unanchored *)
(* /@[A-Z0-9\-]+/, or /^[A-Z0-9@\-]{8,}$/ on the whole line), or more than *)
(* 5 characters of [A-Z0-9@\-\s] and no header.                           *)
HdfcIsContinuationLine(line) ==
  \/ HasWord(line, {"@OKAXIS"})
  \/ Len(line) = 1 /\ IsWordIn(line[1], HdfcCodeWords) /\ LineLength(line) >= 8
  \/ /\ LineLength(line) > 5
     /\ OnlyWords(line, HdfcCodeWords)
     /\ ~HdfcIsHeaderLine(line)

(* isPersonalInfoLine: /^(MR|MS|MRS)\s+[A-Z\s]+$/ *)
HdfcIsPersonalInfoLine(line) ==
  /\ Len(line) >= 2
  /\ IsWord(line[1], "MR")
  /\ \A i \in 2..Len(line) : IsWordIn(line[i], {"MR", "JOHN"})

(* isLikelyTransactionData: /\d{1,3}(?:,\d{3})*(?:\.\d{2})?/ matches any   *)
(* digit; the words of the vocabulary hold none.                           *)
HdfcIsLikelyTransactionData(line) ==
  \E i \in 1..Len(line) : line[i].k \in {"amt", "date"}

---------------------------------------------------------------------------
(* Kotak: getPatterns and the line predicates of cleanOCROutput *)

(* patterns.transaction: /^\d{2}-\d{2}-\d{4}\s+/ *)
KotakTransactionPattern(line) == Len(line) >= 2 /\ IsKotakDate(line[1])

(* /\b(BANK|MAHINDRA|KOTAK)\b/i, not anchored *)
KotakIsHeaderLine(line) == HasWord(line, {"BANK", "KOTAK"})

(* The continuation patterns are anchored at both ends, except             *)
(* /^\/Payment(\s|$)/i: /^\/UP[Il]?intent$/i, /^(Pay\s+to|Transfer\s+to)$/i *)
KotakIsContinuationLine(line) ==
  \/ Len(line) = 1 /\ IsWord(line[1], "/UPIintent")
  \/ Len(line) = 2 /\ IsWord(line[1], "Pay") /\ IsWord(line[2], "to")
  \/ Len(line) >= 1 /\ IsWord(line[1], "/Payment")

(* /^[A-Z][A-Za-z]+\s+[A-Z][A-Za-z]+(\s+Period)?$/i: two words of letters *)
KotakIsPersonalInfoLine(line) ==
  /\ Len(line) = 2
  /\ OnlyWords(line, {"John", "Smith", "Pay", "to", "Paid", "BANK", "KOTAK"})

(* hasTransactionElements, lines 111-118: /UPI-\d+/ ... /\d+\.\d{2}\((Cr|Dr)\)/ *)
KotakHasTransactionElements(line) ==
  \E i \in 1..Len(line) : IsWord(line[i], "UPI-123") \/ IsSuffixedAmount(line[i])

---------------------------------------------------------------------------
(* ICICI: getPatterns and the line predicates of cleanOCROutput *)

(* A serial number, \d+ *)
IsSerial(t) == t.k = "amt" /\ t.s = "int"

(* patterns.transaction:                                                   *)
(* /^\s*(?:\d+\s+)?\d{2}\/\d{2}\/\d{4}\s+\d{2}\/\d{2}\/\d{4}/              *)
IciciDatesAt(line, i) ==
  Len(line) >= i + 1 /\ IsIciciDate(line[i]) /\ IsIciciDate(line[i + 1])
IciciTransactionPattern(line) ==
  \/ IciciDatesAt(line, 1)
  \/ Len(line) >= 1 /\ IsSerial(line[1]) /\ IciciDatesAt(line, 2)

(* /ICICI\s+Bank/i, not anchored *)
IciciIsHeaderLine(line) ==
  \E i \in 1..(Len(line) - 1) : IsWord(line[i], "ICICI") /\ IsWord(line[i + 1], "Bank")

---------------------------------------------------------------------------
(* cleanOCROutput of the three parsers: the same scan, with the variant's  *)
(* predicates.                                                             *)

IsTransactionStart(b, line) ==
  CASE b = "HDFC" -> HdfcTransactionPattern(line)
    [] b = "KOTAK" -> KotakTransactionPattern(line)
    [] b = "ICICI" -> IciciTransactionPattern(line)

IsHeaderLine(b, line) ==
  CASE b = "HDFC" -> HdfcIsHeaderLine(line)
    [] b = "KOTAK" -> KotakIsHeaderLine(line)
    [] b = "ICICI" -> IciciIsHeaderLine(line)

(* ICICI has no personalInfo patterns. *)
IsPersonalInfoLine(b, line) ==
  CASE b = "HDFC" -> HdfcIsPersonalInfoLine(line)
    [] b = "KOTAK" -> KotakIsPersonalInfoLine(line)
    [] b = "ICICI" -> FALSE

(* The outer loop's skip: HDFC 91-94, Kotak 122-124, ICICI 57-59. *)
CleanSkips(b, line) ==
  line = Blank \/ IsHeaderLine(b, line) \/ IsPersonalInfoLine(b, line)

(* Mutant: the inner loop does not look for a header line. *)
CleanStopsNoHeader(b, line) ==
  line = Blank \/ IsTransactionStart(b, line)

(* Mutant: the inner loop does not look for the next transaction. *)
CleanStopsNoTransaction(b, line) ==
  line = Blank \/ IsHeaderLine(b, line)

(* The inner loop's first test: HDFC 106-110, Kotak 131-133, ICICI 68-70. *)
CleanStops(b, line) ==
  line = Blank \/ IsTransactionStart(b, line) \/ IsHeaderLine(b, line)

(* The inner loop's second test: HDFC 113-114, Kotak 134; ICICI appends    *)
(* every line that did not stop the loop.                                  *)
CleanAccepts(b, line) ==
  CASE b = "HDFC" ->
         \/ HdfcIsContinuationLine(line)
         \/ HdfcIsLikelyTransactionData(line) /\ LineLength(line) < 100
    [] b = "KOTAK" ->
         \/ KotakIsContinuationLine(line)
         \/ KotakHasTransactionElements(line) /\ LineLength(line) < 150
    [] b = "ICICI" -> TRUE

(* HDFC 115: transactionText += nextLine; Kotak 135 and ICICI 72:          *)
(* transactionText += ' ' + nextLine.                                      *)
CleanAppend(b, text, line) ==
  IF b = "HDFC" THEN text \o <<Glue>> \o line ELSE text \o line

(* The while loop: from line j on, with the text collected so far and the  *)
(* index of the last line taken.                                           *)
RECURSIVE CleanCollect(_, _, _, _, _)
CleanCollect(b, lines, j, text, last) ==
  IF j > Len(lines) \/ CleanStops(b, lines[j]) \/ ~CleanAccepts(b, lines[j])
    THEN [text |-> text, first |-> 0, last |-> last]
    ELSE CleanCollect(b, lines, j + 1, CleanAppend(b, text, lines[j]), j)

(* Mutant: the inner loop leaves i alone, so the for loop goes on from the  *)
(* line after the transaction start.                                       *)
CleanResumeRescanning(i, r) == i + 1

(* Where the for loop goes on after a record started at line i: "i = j"    *)
(* for every line appended (HDFC 116, Kotak 136, ICICI 73), then the       *)
(* loop's i++.                                                             *)
CleanResume(i, r) == r.last + 1

(* The for loop: the merged records from line i on, each with the range of *)
(* input lines it was built from.                                          *)
RECURSIVE CleanRecords(_, _, _)
CleanRecords(b, lines, i) ==
  IF i > Len(lines) THEN <<>>
  ELSE IF CleanSkips(b, lines[i]) \/ ~IsTransactionStart(b, lines[i])
    THEN CleanRecords(b, lines, i + 1)
  ELSE LET r == CleanCollect(b, lines, i + 1, lines[i], i)
       IN <<[r EXCEPT !.first = i]>> \o CleanRecords(b, lines, CleanResume(i, r))

(* The indices the for loop visits from line i on: every line except the   *)
(* ones the inner loop made it skip.                                       *)
RECURSIVE CleanVisits(_, _, _)
CleanVisits(b, lines, i) ==
  IF i > Len(lines) THEN {}
  ELSE IF CleanSkips(b, lines[i]) \/ ~IsTransactionStart(b, lines[i])
    THEN {i} \cup CleanVisits(b, lines, i + 1)
  ELSE LET r == CleanCollect(b, lines, i + 1, lines[i], i)
       IN {i} \cup CleanVisits(b, lines, CleanResume(i, r))

RecordTexts(recs) == [n \in 1..Len(recs) |-> recs[n].text]

(* Mutant: a record still being accumulated at the end of the input is not *)
(* emitted.                                                                *)
CleanOCROutputDroppingLast(b, text) ==
  LET recs == CleanRecords(b, text, 1)
  IN IF recs # <<>> /\ recs[Len(recs)].last = Len(text) /\ recs[Len(recs)].first < Len(text)
       THEN JoinBlank(RecordTexts(SubSeq(recs, 1, Len(recs) - 1)))
       ELSE JoinBlank(RecordTexts(recs))

(* return transactionLines.join('\n\n') *)
CleanOCROutput(b, text) == JoinBlank(RecordTexts(CleanRecords(b, text, 1)))

---------------------------------------------------------------------------
(* parseTransactionLine and cleanOCROutputSimplified *)

(* What parseTransactionLine returns for a line it rejects: null, which    *)
(* the callers' if (simplified) treats like the empty string.              *)
Null == <<>>

(* The first (last) of the positions S where a pattern can match, 0 when   *)
(* there is none: what a lazy (greedy) group settles on.                   *)
FirstIndexIn(S) == IF S = {} THEN 0 ELSE CHOOSE i \in S : \A j \in S : i <= j
LastIndexIn(S) == IF S = {} THEN 0 ELSE CHOOSE i \in S : \A j \in S : i >= j

(* What String.replace leaves where it deleted a token: the empty string, *)
(* with the whitespace that surrounded the token still there.              *)
Gone == [k |-> "gone", s |-> "", v |-> 0]

(* .replace(/\s+/g, ' ').trim() once tokens have been deleted: a deleted   *)
(* token between two glues leaves its neighbours glued, any other deleted  *)
(* token leaves whitespace.                                                *)
RECURSIVE Collapse(_)
Collapse(l) ==
  IF l = <<>> THEN <<>>
  ELSE IF Len(l) >= 3 /\ l[1] = Glue /\ l[2] = Gone /\ l[3] = Glue
    THEN Collapse(Tail(Tail(l)))
  ELSE IF Len(l) >= 2 /\ l[1] = Glue /\ l[2] = Gone
    THEN Collapse(Tail(Tail(l)))
  ELSE IF l[1] = Gone
    THEN IF Len(l) >= 2 /\ l[2] = Glue THEN Collapse(Tail(Tail(l)))
         ELSE Collapse(Tail(l))
  ELSE IF l[1] = Glue /\ Len(l) = 1 THEN <<>>
  ELSE <<l[1]>> \o Collapse(Tail(l))

(* BaseParser.extractCurrencyAmounts: /(\d{1,3}(?:,\d{3})*\.\d{2})/g finds *)
(* every number with two fraction digits, a suffix after it or a minus     *)
(* sign before it or not; the match is the digits, without the sign.       *)
IsCurrencyToken(t) == t.k = "amt" /\ t.s # "int"
ExtractCurrencyAmounts(line) == SelectSeq(line, IsCurrencyToken)

(* String.replace(amount, ''): the first occurrence of a number's text;    *)
(* the minus sign of a signed number stays.                                *)
RemoveFirstAmount(line, v) ==
  LET i == FirstIndexIn({n \in 1..Len(line) :
                           IsCurrencyToken(line[n]) /\ Abs(line[n].v) = Abs(v)})
  IN IF i = 0 THEN line
     ELSE [line EXCEPT ![i] = IF line[i].s = "neg" THEN Word("-") ELSE Gone]

(* HDFC parseTransactionLine, line 273: /@[A-Z0-9\-]+/g deletes a handle   *)
(* and the run of [A-Z0-9\-] glued to its end: whole words of these        *)
(* characters, and the leading digits of a number, whose remainder stays.  *)
NumberRest(t) == [k |-> "rest", s |-> t.s, v |-> t.v]
RECURSIVE HdfcStripHandles(_)
RECURSIVE HdfcAbsorb(_)
HdfcAbsorb(rest) ==
  IF Len(rest) >= 2 /\ rest[1] = Glue /\ IsWordIn(rest[2], {"UPI-SHOP", "MR", "JOHN"})
    THEN HdfcAbsorb(Tail(Tail(rest)))
  ELSE IF Len(rest) >= 2 /\ rest[1] = Glue /\ rest[2].k = "amt"
    THEN <<Glue, NumberRest(rest[2])>> \o HdfcStripHandles(Tail(Tail(rest)))
  ELSE HdfcStripHandles(rest)
HdfcStripHandles(line) ==
  IF line = <<>> THEN <<>>
  ELSE IF IsWord(Head(line), "@OKAXIS")
    THEN <<Gone>> \o HdfcAbsorb(Tail(line))
  ELSE <<Head(line)>> \o HdfcStripHandles(Tail(line))

(* Mutant: the amount keeps the sign it has in the source. *)
HdfcParseTransactionLineSigned(line) ==
  LET amounts == ExtractCurrencyAmounts(line)
  IN IF line = <<>> \/ ~IsHdfcDate(line[1]) THEN Null
     ELSE IF Len(amounts) < 2 THEN Null
     ELSE
       LET amount == amounts[Len(amounts) - 1]
           balance == amounts[Len(amounts)]
           rest == RemoveFirstAmount(RemoveFirstAmount(Tail(line), amount.v),
                                     balance.v)
           description ==
             Collapse(HdfcStripHandles(
               [i \in 1..Len(rest) |->
                  IF IsHdfcDate(rest[i]) \/ IsPipe(rest[i]) THEN Gone ELSE rest[i]]))
       IN <<line[1], Pipe>> \o description
          \o <<Pipe, amount, Amt(Abs(balance.v))>>

(* Mutant: no test for the date at the start of the line. *)
HdfcParseTransactionLineUndated(line) ==
  LET amounts == ExtractCurrencyAmounts(line)
  IN IF line = <<>> THEN Null
     ELSE IF Len(amounts) < 2 THEN Null
     ELSE
       LET amount == amounts[Len(amounts) - 1]
           balance == amounts[Len(amounts)]
           rest == RemoveFirstAmount(RemoveFirstAmount(Tail(line), amount.v),
                                     balance.v)
           description ==
             Collapse(HdfcStripHandles(
               [i \in 1..Len(rest) |->
                  IF IsHdfcDate(rest[i]) \/ IsPipe(rest[i]) THEN Gone ELSE rest[i]]))
       IN <<line[1], Pipe>> \o description
          \o <<Pipe, Amt(Abs(amount.v)), Amt(Abs(balance.v))>>

(* HDFC parseTransactionLine, lines 236-286.  The amount and the balance   *)
(* are deleted by their text, at its first occurrence; no number of the    *)
(* vocabulary is written inside another one.  The substitution passes of   *)
(* lines 270-279 other than the dates, the pipes and the handles match     *)
(* nothing in the vocabulary.                                              *)
HdfcParseTransactionLine(line) ==
  LET amounts == ExtractCurrencyAmounts(line)
  IN IF line = <<>> \/ ~IsHdfcDate(line[1]) THEN Null
     ELSE IF Len(amounts) < 2 THEN Null
     ELSE
       LET amount == amounts[Len(amounts) - 1]
           balance == amounts[Len(amounts)]
           rest == RemoveFirstAmount(RemoveFirstAmount(Tail(line), amount.v),
                                     balance.v)
           description ==
             Collapse(HdfcStripHandles(
               [i \in 1..Len(rest) |->
                  IF IsHdfcDate(rest[i]) \/ IsPipe(rest[i]) THEN Gone ELSE rest[i]]))
       IN <<line[1], Pipe>> \o description
          \o <<Pipe, Amt(Abs(amount.v)), Amt(Abs(balance.v))>>

(* [\d,.]*\d after whitespace: a number with or without a fraction part. *)
IsNumberToken(t) == t.k = "amt" /\ t.s \in {"", "int"}

(* Mutant: amountRegex anchored at the end of the record. *)
IciciParseTransactionLineAnchored(line) ==
  IF ~IciciTransactionPattern(line) THEN Null
  ELSE
    LET d == IF IsIciciDate(line[1]) THEN 1 ELSE 2
        rem == SubSeq(line, d + 2, Len(line))
        j == LastIndexIn({i \in 2..(Len(rem) - 2) :
                            /\ i = Len(rem) - 2
                            /\ IsNumberToken(rem[i])
                            /\ IsNumberToken(rem[i + 1])
                            /\ IsCurrencyToken(rem[i + 2])
                            /\ rem[i + 2].s # "neg"})
    IN IF j = 0 THEN Null
       ELSE <<line[d + 1], Pipe>> \o SubSeq(rem, 1, j - 1)
            \o <<Pipe, rem[j], rem[j + 1], Amt(rem[j + 2].v)>>

(* ICICI parseTransactionLine, lines 164-185.  The greedy description of   *)
(* amountRegex takes the last run of three numbers, the third with two     *)
(* fraction digits, that has at least one token before it.  Each of the    *)
(* three follows whitespace, so none carries a sign.                       *)
IciciParseTransactionLine(line) ==
  IF ~IciciTransactionPattern(line) THEN Null
  ELSE
    LET d == IF IsIciciDate(line[1]) THEN 1 ELSE 2
        rem == SubSeq(line, d + 2, Len(line))
        j == LastIndexIn({i \in 2..(Len(rem) - 2) :
                            /\ IsNumberToken(rem[i])
                            /\ IsNumberToken(rem[i + 1])
                            /\ IsCurrencyToken(rem[i + 2])
                            /\ rem[i + 2].s # "neg"})
    IN IF j = 0 THEN Null
       ELSE <<line[d + 1], Pipe>> \o SubSeq(rem, 1, j - 1)
            \o <<Pipe, rem[j], rem[j + 1], Amt(rem[j + 2].v)>>

(* The text of a word before its first / : *)
BeforeSlash(w) ==
  CASE w \in {"UPI/SHOP/123", "UPI/SHOP", "UPI//123"} -> "UPI"
    [] w \in {"/UPIintent", "/Payment"} -> ""
    [] w = "SentIMPS123JOHN/HDFC" -> "SentIMPS123JOHN"
    [] OTHER -> w
(* The text of a word before its first / or - : *)
BeforeSlashOrHyphen(w) ==
  CASE w \in {"UPI-123", "UPI-SHOP"} -> "UPI"
    [] w = "IMPS-456" -> "IMPS"
    [] w = "NEFTINW-789" -> "NEFTINW"
    [] w = "MB-321" -> "MB"
    [] OTHER -> BeforeSlash(w)
(* The text of a word between its first and its second / : *)
BetweenSlashes(w) ==
  CASE w = "UPI/SHOP/123" -> "SHOP"
    [] OTHER -> ""
HasSlash(t) == t.k = "word" /\ BeforeSlash(t.s) # t.s
WordOrNone(w) == IF w = "" THEN <<>> ELSE <<Word(w)>>

(* Kotak parseTransactionLine, lines 203-226: the cleaned description of   *)
(* a non-empty full description.                                           *)
(* Of the words of the vocabulary, NEFT and NEFTINW-789 start with NEFT,    *)
(* SentIMPS123JOHN/HDFC and IMPS-456 hold IMPS, and NEFT, KOTAK, BANK, FROM, *)
(* CASHBACK and EARNED match [A-Z0-9]+.                                    *)
(* /(?:SentIMPS|Senilupss21)\d*([A-Za-z\s\.]+?)(?:\/|IMPS)/ *)
KotakImpsName(w) == IF w = "SentIMPS123JOHN/HDFC" THEN <<Word("JOHN")>> ELSE <<>>
(* /^(UPI|UPU|UPV|UPl|UP1)/i deleted from the start of a word. *)
KotakWithoutUpi(w) ==
  CASE w = "UPI" -> ""
    [] w = "UPI-123" -> "-123"
    [] OTHER -> w
KotakUnknown == <<Word("UNKNOWN")>>

KotakCleanDescription(full) ==
  LET neft == FirstIndexIn({i \in 4..Len(full) : IsWord(full[i], "NEFTINW-789")})
      mb == FirstIndexIn({i \in 4..Len(full) : IsWord(full[i], "MB-321")})
      imps == FirstIndexIn({i \in 1..Len(full) :
                              full[i].k = "word" /\ KotakImpsName(full[i].s) # <<>>})
      sl == FirstIndexIn({i \in 1..Len(full) : HasSlash(full[i])})
  IN CASE IsWordIn(full[1], {"NEFT", "NEFTINW-789"}) ->
            IF /\ IsWord(full[1], "NEFT") /\ neft # 0
               /\ IsWordIn(full[2], {"NEFT", "KOTAK", "BANK", "FROM", "CASHBACK",
                                      "EARNED"})
              THEN SubSeq(full, 3, neft - 1)
              ELSE KotakUnknown
       [] Len(full) >= 2 /\ IsWord(full[1], "MB:RECEIVED") /\ IsWord(full[2], "FROM") ->
            IF mb # 0 THEN SubSeq(full, 3, mb - 1) ELSE KotakUnknown
       [] HasWord(full, {"SentIMPS123JOHN/HDFC", "IMPS-456"}) ->
            IF imps # 0 THEN KotakImpsName(full[imps].s) ELSE KotakUnknown
       [] Len(full) >= 2 /\ IsWord(full[1], "CASHBACK") /\ IsWord(full[2], "EARNED") ->
            <<Word("CASHBACK"), Word("EARNED")>>
       [] sl # 0 ->
            LET firstPart == SubSeq(full, 1, sl - 1) \o WordOrNone(BeforeSlash(full[sl].s))
            IN IF firstPart = <<Word("UPI")>>
                 THEN WordOrNone(BetweenSlashes(full[sl].s))
               ELSE IF firstPart # <<>> /\ firstPart[1].k = "word"
                 THEN WordOrNone(KotakWithoutUpi(firstPart[1].s)) \o Tail(firstPart)
               ELSE firstPart
       [] OTHER -> KotakUnknown

(* Mutant: an amount without a (Dr) or (Cr) suffix is taken as well. *)
KotakAmountIndexUnsuffixed(line) ==
  FirstIndexIn({i \in 3..Len(line) : IsCurrencyToken(line[i])})

(* Kotak parseTransactionLine, line 196: (.+?) takes at least one token,   *)
(* so the amount is the first suffixed number from the third token on.     *)
KotakAmountIndex(line) ==
  FirstIndexIn({i \in 3..Len(line) : IsSuffixedAmount(line[i])})

(* Kotak parseTransactionLine, lines 195-229 *)
KotakParseTransactionLine(line) ==
  IF line = <<>> \/ ~IsKotakDate(line[1]) \/ KotakAmountIndex(line) = 0 THEN Null
  ELSE
    LET j == KotakAmountIndex(line)
    IN <<line[1], Pipe>> \o KotakCleanDescription(SubSeq(line, 2, j - 1))
       \o <<Pipe, line[j]>>

ParseTransactionLine(b, line) ==
  CASE b = "HDFC" -> HdfcParseTransactionLine(line)
    [] b = "KOTAK" -> KotakParseTransactionLine(line)
    [] b = "ICICI" -> IciciParseTransactionLine(line)

(* The non-null results of parseTransactionLine over a sequence of lines. *)
ParseAll(b, lines) ==
  SelectSeq([n \in 1..Len(lines) |-> ParseTransactionLine(b, lines[n])],
            LAMBDA l : l # Null)

(* Mutant: the results are pushed to the front of simplifiedLines. *)
CleanOCROutputSimplifiedReversed(b, text) ==
  LET recs == IF b = "ICICI" THEN RecordTexts(CleanRecords(b, text, 1)) ELSE NonBlank(text)
      parsed == ParseAll(b, recs)
      reversed == [i \in 1..Len(parsed) |-> parsed[Len(parsed) + 1 - i]]
  IN IF b = "ICICI" THEN JoinLines(reversed) ELSE JoinBlank(reversed)

(* cleanOCROutputSimplified.  HDFC (130-147) and Kotak (154-166) parse     *)
(* every non-blank line of the text they are given and join the results    *)
(* with '\n\n'; ICICI (87-104) first runs cleanOCROutput on it, parses the *)
(* merged records and joins with '\n'.                                     *)
CleanOCROutputSimplified(b, text) ==
  IF b = "ICICI"
    THEN JoinLines(ParseAll(b, RecordTexts(CleanRecords(b, text, 1))))
    ELSE JoinBlank(ParseAll(b, NonBlank(text)))

---------------------------------------------------------------------------
(* ICICI: categorizeTransactions *)

(* line.split('|') *)
RECURSIVE SplitAtPipes(_)
SplitAtPipes(line) ==
  LET i == FirstIndexIn({n \in 1..Len(line) : IsPipe(line[n])})
  IN IF i = 0 THEN <<line>>
     ELSE <<SubSeq(line, 1, i - 1)>> \o SplitAtPipes(SubSeq(line, i + 1, Len(line)))

(* parseFloat(token.replace(/,/g, '')) > 0 and === 0; a word gives NaN,    *)
(* which is neither; a date gives its day number.                          *)
ParsesPositive(t) == (t.k = "amt" /\ t.v > 0) \/ t.k = "date"
ParsesZero(t) == t.k = "amt" /\ t.v = 0

(* Lines 133-142 *)
IciciType(w, d) ==
  IF ParsesPositive(w) /\ ParsesZero(d) THEN "DEBIT"
  ELSE IF ParsesPositive(d) /\ ParsesZero(w) THEN "CREDIT"
  ELSE "UNKNOWN"

(* Mutant: the two columns exchanged. *)
IciciActualAmountSwapped(w, d) ==
  IF ParsesPositive(w) /\ ParsesZero(d) THEN d
  ELSE IF ParsesPositive(d) /\ ParsesZero(w) THEN w
  ELSE Amt(0)

IciciActualAmount(w, d) ==
  IF ParsesPositive(w) /\ ParsesZero(d) THEN w
  ELSE IF ParsesPositive(d) /\ ParsesZero(w) THEN d
  ELSE Amt(0)

(* Lines 145-152: the substitution passes delete long digit runs and UPI   *)
(* handles, and .split(/[\/-]/)[0] keeps what precedes the first / or -.   *)
IciciCutsAt(t) ==
  \/ t.k = "date"
  \/ t.k = "word" /\ BeforeSlashOrHyphen(t.s) # t.s
  \/ t.k = "amt" /\ t.s = "neg"
IciciBeforeCut(t) ==
  CASE t.k = "date" -> <<Word("DD")>>
    [] t.k = "amt" -> <<>>
    [] OTHER -> WordOrNone(BeforeSlashOrHyphen(t.s))
IciciCleanDescription(desc) ==
  LET kept == SelectSeq(desc, LAMBDA t : ~IsWordIn(t, {"123456789012", "shop@okicici"}))
      c == FirstIndexIn({i \in 1..Len(kept) : IciciCutsAt(kept[i])})
  IN IF c = 0 THEN kept
     ELSE SubSeq(kept, 1, c - 1) \o IciciBeforeCut(kept[c])

(* Lines 116-154: the output line of one input line, Null when the line is *)
(* skipped.                                                                *)
IciciCategorizeLine(line) ==
  LET parts == SplitAtPipes(line)
  IN IF Len(parts) < 3 THEN Null
     ELSE IF Len(parts[3]) < 3 THEN Null
     ELSE
       LET description == IciciCleanDescription(parts[2])
       IN parts[1] \o <<Pipe>>
          \o (IF description = <<>> THEN <<Word("Transaction")>> ELSE description)
          \o <<Pipe, IciciActualAmount(parts[3][1], parts[3][2]), Pipe,
               TypeWord(IciciType(parts[3][1], parts[3][2]))>>

IciciCategorizeTransactions(text) ==
  JoinBlank(SelectSeq([n \in 1..Len(text) |-> IciciCategorizeLine(text[n])],
                      LAMBDA l : l # Null))

---------------------------------------------------------------------------
(* Kotak: categorizeTransactions *)

(* transactionRegex, line 178: the lazy description ends at the first |    *)
(* that is followed by a number with a (Cr) or (Dr) suffix.                *)
KotakAmountPipe(line) ==
  LET S == {j \in 3..(Len(line) - 1) : IsPipe(line[j]) /\ IsSuffixedAmount(line[j + 1])}
  IN IF S = {} THEN 0 ELSE CHOOSE j \in S : \A k \in S : j <= k

KotakSimplifiedMatch(line) ==
  /\ Len(line) >= 4
  /\ IsKotakDate(line[1])
  /\ IsPipe(line[2])
  /\ KotakAmountPipe(line) # 0

(* Line 185 *)
KotakType(t) == IF t.s = "(Cr)" THEN "CREDIT" ELSE "DEBIT"

(* Lines 181-187 *)
KotakCategorizeLine(line) ==
  IF ~KotakSimplifiedMatch(line) THEN Null
  ELSE
    LET j == KotakAmountPipe(line)
    IN <<line[1], Pipe>> \o SubSeq(line, 3, j - 1)
       \o <<Pipe, Amt(line[j + 1].v), Pipe, TypeWord(KotakType(line[j + 1]))>>

KotakCategorizeTransactions(text) ==
  LET lines == NonBlank(text)
  IN JoinBlank(SelectSeq([n \in 1..Len(lines) |-> KotakCategorizeLine(lines[n])],
                         LAMBDA l : l # Null))

CategorizeTransactions(b, text) ==
  CASE b = "HDFC" -> HdfcCategorizeTransactions(text)
    [] b = "KOTAK" -> KotakCategorizeTransactions(text)
    [] b = "ICICI" -> IciciCategorizeTransactions(text)

---------------------------------------------------------------------------
(* parseCategorizedData (part_002, lines 34-122) *)

(* dateStr.match(/(\d{1,2})\/(\d{1,2})\/(\d{2,4})/): the first date written *)
(* with slashes, 0 when there is none.                                     *)
SlashDateIndex(part) ==
  FirstIndexIn({i \in 1..Len(part) :
                  part[i].k = "date" /\ part[i].s \in {HdfcDate, IciciDate}})

(* new Date(`${year}-${month}-${day}`).toISOString(), the year of a        *)
(* two-digit date completed to four digits: the ISO-8601 text of the day.  *)
(* A month above 12 makes the Date invalid and toISOString throw.          *)
IsValidDate(t) == t.v # 0
ToISOString(t) == [k |-> "iso", s |-> "YYYY-MM-DDT00:00:00.000Z", v |-> t.v]

(* parseFloat(amountStr.replace(/[,\s]/g, '')), as <<number>>, in cents,   *)
(* or <<>> for NaN: the number the text starts with.  A date starts with   *)
(* its day, 01 for the calendar day and 45 for the digits that are no      *)
(* date.  No third field of a categorized line of the vocabulary holds a   *)
(* number followed by another token.                                       *)
ParseFloat(part) ==
  IF part = <<>> THEN <<>>
  ELSE CASE part[1].k = "amt" -> <<part[1].v>>
         [] part[1].k = "date" -> <<IF part[1].v = 0 THEN 4500 ELSE 100>>
         [] OTHER -> <<>>

(* Lines 41-102: the records, none or one, built from one line.  No word   *)
(* of the vocabulary starts with = ; PAGE would be the only one to hold    *)
(* PAGE.                                                                   *)
ParseCategorizedLine(selectedBank, line) ==
  LET parts == SplitAtPipes(line)
  IN IF line = Blank \/ HasWord(line, {"PAGE"}) THEN <<>>
     ELSE IF PipeCount(line) = 0 \/ Len(parts) < 4 THEN <<>>
     ELSE
       LET d == SlashDateIndex(parts[1])
           numericAmount == ParseFloat(parts[3])
       IN IF d = 0 \/ ~IsValidDate(parts[1][d]) THEN <<>>
          ELSE IF numericAmount = <<>> THEN <<>>
          ELSE << [date |-> ToISOString(parts[1][d]),
                   description |-> IF parts[2] = <<>>
                                     THEN <<Word("Unknown"), Word("Transaction")>>
                                     ELSE parts[2],
                   amount |-> IF HasWord(parts[4], {"DEBIT", "CREDIT"})
                                THEN Abs(numericAmount[1])
                                ELSE numericAmount[1],
                   category |-> IF parts[4] = <<>>
                                  THEN <<Word("Uncategorized")>>
                                  ELSE parts[4],
                   bank |-> selectedBank,
                   raw_text |-> line] >>

RECURSIVE ParseCategorizedData(_, _)
ParseCategorizedData(selectedBank, text) ==
  IF text = <<>> THEN <<>>
  ELSE ParseCategorizedLine(selectedBank, Head(text))
       \o ParseCategorizedData(selectedBank, Tail(text))

---------------------------------------------------------------------------
(* Raw OCR lines of each statement layout *)

HdfcRawLines ==
  { <<Date(HdfcDate, 1), Pipe, Word("UPI-SHOP"), Amt(10000), Amt(90000)>>,
    <<Date(HdfcDate, 1), Pipe, Word("UPI-SHOP")>>,
    <<Amt(10000), Amt(90000)>>,
    <<Word("@OKAXIS")>>,
    <<Word("RTGS/NEFT")>>,
    <<Word("@OKAXIS"), Word("RTGS/NEFT")>>,
    <<Word("RTGS/NEFT"), Amt(10000), Amt(90000)>>,
    <<Date(HdfcDate, 1), Pipe, Word("RTGS/NEFT"), Amt(10000), Amt(90000)>>,
    <<Word("MR"), Word("JOHN")>>,
    <<Word("Paid")>>,
    Blank }

KotakRawLines ==
  { <<Date(KotakDate, 1), Word("UPI/SHOP/123"), Word("UPI-123"),
      AmtAs("(Dr)", 10000), AmtAs("(Cr)", 500000)>>,
    <<Date(KotakDate, 1), Word("UPI/SHOP/123")>>,
    <<Word("UPI-123"), AmtAs("(Dr)", 10000), AmtAs("(Cr)", 500000)>>,
    <<Word("/UPIintent")>>,
    <<Word("KOTAK")>>,
    <<Word("/Payment"), Word("BANK")>>,
    <<Word("UPI-123"), Word("BANK")>>,
    <<Date(KotakDate, 1), Word("KOTAK"), AmtAs("(Cr)", 10000), AmtAs("(Cr)", 510000)>>,
    <<Date(KotakDate, 1), AmtAs("(Dr)", 10000), AmtAs("(Cr)", 500000)>>,
    <<Word("John"), Word("Smith")>>,
    <<Word("Pay"), Word("to")>>,
    <<Word("Paid")>>,
    Blank }

IciciRawLines ==
  { <<AmtAs("int", 100), Date(IciciDate, 1), Date(IciciDate, 1),
      Word("UPI/SHOP/123"), Amt(10000), Amt(0), Amt(90000)>>,
    <<Date(IciciDate, 1), Date(IciciDate, 1), Word("Salary"),
      Amt(0), Amt(10000), Amt(100000)>>,
    <<Date(IciciDate, 1), Date(IciciDate, 1), Word("UPI/SHOP/123")>>,
    <<Amt(10000), Amt(0), Amt(90000)>>,
    <<Word("ICICI"), Word("Bank")>>,
    <<Date(IciciDate, 1), Date(IciciDate, 1), Word("ICICI"), Word("Bank"),
      Amt(10000), Amt(0), Amt(90000)>>,
    <<Date(IciciDate, 1), Date(IciciDate, 1), Amt(10000), Amt(0), Amt(90000)>>,
    <<Date(IciciDate, 1), Date(IciciDate, 1), Word("ATM"),
      AmtAs("int", 50000), Amt(0), Amt(40000)>>,
    <<Word("Paid")>>,
    Blank }

RawLines(b) ==
  CASE b = "HDFC" -> HdfcRawLines
    [] b = "KOTAK" -> KotakRawLines
    [] b = "ICICI" -> IciciRawLines

(* Simplified lines handed to categorizeTransactions directly. *)
HdfcCategorizeLines ==
  { HdfcSimplifiedLine(10000, 90000),
    HdfcSimplifiedLine(10000, 100000),
    <<Date(HdfcDate, 1), Pipe, Word("A"), Pipe, Word("B"), Pipe, Amt(10000), Amt(90000)>>,
    HdfcJunkLine,
    Blank }

KotakCategorizeLines ==
  { <<Date(KotakDate, 1), Pipe, Word("SHOP"), Pipe, AmtAs("(Dr)", 10000)>>,
    <<Date(KotakDate, 1), Pipe, Word("SHOP"), Pipe, AmtAs("(Cr)", 500000)>>,
    <<Date(KotakDate, 1), Pipe, Word("A"), Pipe, Word("B"), Pipe, AmtAs("(Cr)", 10000)>>,
    <<Date(KotakDate, 1), Pipe, Word("SHOP"), Pipe, Amt(10000)>>,
    <<Word("Paid")>>,
    Blank }

IciciCategorizeLines ==
  { <<Date(IciciDate, 1), Pipe, Word("Salary"), Pipe, w, d, Amt(90000)>> :
      w \in {Amt(0), Amt(10000), AmtAs("int", 50000), Word("NIL")},
      d \in {Amt(0), Amt(10000), AmtAs("int", 50000), Word("NIL")} }
    \cup
  { <<Date(IciciDate, 1), Pipe, Word("UPI/SHOP/123"), Pipe, Amt(10000), Amt(0), Amt(90000)>>,
    <<Date(IciciDate, 1), Pipe, Word("123456789012"), Pipe, Amt(0), Amt(10000), Amt(90000)>>,
    <<Date(IciciDate, 1), Pipe, Word("A"), Pipe, Word("B"), Pipe, Amt(10000), Amt(0), Amt(90000)>>,
    <<Date(IciciDate, 1), Pipe, Word("Salary"), Pipe, Amt(10000), Amt(90000)>>,
    <<Word("Paid")>>,
    Blank }

CategorizeLines(b) ==
  CASE b = "HDFC" -> HdfcCategorizeLines
    [] b = "KOTAK" -> KotakCategorizeLines
    [] b = "ICICI" -> IciciCategorizeLines

Banks == {"HDFC", "KOTAK", "ICICI"}

---------------------------------------------------------------------------
(* The three parser operations, in the order handleFileUpload calls them   *)
(* (part_002, lines 265-270): both cleaning operations get the extracted   *)
(* text, the categorizer gets the simplified text.                         *)

Clean ==
  /\ pc = "raw"
  /\ merged' = CleanRecords(bank, rawText, 1)
  /\ cleaned' = CleanOCROutput(bank, rawText)
  /\ pc' = "cleaned"
  /\ UNCHANGED <<bank, rawText, simplified, categorized,
               docCode, parser, error, transactions, calls,
          store, loads, isClient, sinceReset, ui>>

Simplify ==
  /\ pc = "cleaned"
  /\ simplified' = CleanOCROutputSimplified(bank, rawText)
  /\ pc' = "simplified"
  /\ UNCHANGED <<bank, rawText, cleaned, merged, categorized,
               docCode, parser, error, transactions, calls,
          store, loads, isClient, sinceReset, ui>>

Categorize ==
  /\ pc = "simplified"
  /\ categorized' = CategorizeTransactions(bank, simplified)
  /\ pc' = "done"
  /\ UNCHANGED <<bank, rawText, cleaned, merged, simplified,
               docCode, parser, error, transactions, calls,
          store, loads, isClient, sinceReset, ui>>

(* The whole pipeline on an arbitrary extracted text. *)
PipelineInit ==
  /\ bank \in Banks
  /\ pc = "raw"
  /\ rawText \in TextsOf(RawLines(bank), MaxLines)
  /\ cleaned = <<>>
  /\ merged = <<>>
  /\ simplified = <<>>
  /\ categorized = <<>>
  /\ docCode = bank
  /\ parser = ParserOf(bank)
  /\ error = NoError
  /\ transactions = <<>>
  /\ calls = <<>>
  /\ store = InitialDataStore
  /\ loads = <<>>
  /\ isClient = TRUE
  /\ sinceReset = "none"
  /\ ui = InitialUi

PipelineNext == Clean \/ Simplify \/ Categorize

SpecPipeline == PipelineInit /\ [][PipelineNext]_vars

(* categorizeTransactions of any variant on an arbitrary simplified text. *)
CategorizeInit ==
  /\ bank \in Banks
  /\ pc = "simplified"
  /\ rawText = <<>>
  /\ cleaned = <<>>
  /\ merged = <<>>
  /\ simplified \in TextsOf(CategorizeLines(bank), MaxLines)
  /\ categorized = <<>>
  /\ docCode = bank
  /\ parser = ParserOf(bank)
  /\ error = NoError
  /\ transactions = <<>>
  /\ calls = <<>>
  /\ store = InitialDataStore
  /\ loads = <<>>
  /\ isClient = TRUE
  /\ sinceReset = "none"
  /\ ui = InitialUi

CategorizeNext == Categorize

SpecCategorize == CategorizeInit /\ [][CategorizeNext]_vars

---------------------------------------------------------------------------
(* A statement upload: getParser, the three parser operations             *)
(* (handleFileUpload) and parseCategorizedData (saveToDatabase).           *)

(* Extracted lines of an uploaded statement: a transaction, one with a     *)
(* signed amount, one with no description, one whose date digits are no    *)
(* calendar date, an amount line without a date and a transaction line     *)
(* without its amounts.                                                    *)
HdfcUploadLines ==
  { <<Date(HdfcDate, 1), Pipe, Word("UPI-SHOP"), Amt(10000), Amt(90000)>>,
    <<Date(HdfcDate, 1), Pipe, Word("UPI-SHOP"), AmtAs("neg", -10000), Amt(90000)>>,
    <<Date(HdfcDate, 1), Pipe, Amt(10000), Amt(90000)>>,
    <<Date(HdfcDate, 0), Pipe, Word("UPI-SHOP"), Amt(10000), Amt(90000)>>,
    <<Amt(10000), Amt(90000)>>,
    <<Date(HdfcDate, 1), Pipe, Word("UPI-SHOP")>> }

KotakUploadLines ==
  { <<Date(KotakDate, 1), Word("UPI/SHOP/123"), Word("UPI-123"),
      AmtAs("(Dr)", 10000), AmtAs("(Cr)", 500000)>>,
    <<Date(KotakDate, 1), Word("KOTAK"), AmtAs("(Cr)", 10000), AmtAs("(Cr)", 510000)>>,
    <<Date(KotakDate, 1), Word("UPI//123"), AmtAs("(Dr)", 10000), AmtAs("(Cr)", 500000)>>,
    <<Date(KotakDate, 1), AmtAs("(Dr)", 10000), AmtAs("(Cr)", 500000)>>,
    <<Word("UPI-123"), AmtAs("(Dr)", 10000), AmtAs("(Cr)", 500000)>>,
    <<Date(KotakDate, 1), Word("UPI/SHOP/123")>> }

IciciUploadLines ==
  { <<Date(IciciDate, 1), Date(IciciDate, 1), Word("UPI/SHOP/123"),
      Amt(10000), Amt(0), Amt(90000)>>,
    <<Date(IciciDate, 1), Date(IciciDate, 1), Word("ATM"),
      AmtAs("int", 50000), Amt(0), Amt(40000)>>,
    <<Date(IciciDate, 1), Date(IciciDate, 1), Word("Salary"),
      Amt(0), AmtAs("neg", -10000), Amt(100000)>>,
    <<Date(IciciDate, 1), Date(IciciDate, 1), Word("123456789012"),
      Amt(0), Amt(10000), Amt(100000)>>,
    <<Date(IciciDate, 0), Date(IciciDate, 0), Word("Salary"),
      Amt(0), Amt(10000), Amt(100000)>>,
    <<Amt(10000), Amt(0), Amt(90000)>>,
    <<Date(IciciDate, 1), Date(IciciDate, 1), Word("UPI/SHOP/123")>> }

(* Codes handed to getParser. *)
DocCodes == {"HDFC", "hdfc", "KOTAK", "Kotak", "ICICI", "SBI", "sbi", ""}

(* The layout of the uploaded file: the selected bank's, and an HDFC       *)
(* statement under a code that names no bank.                              *)
UploadLines(code) ==
  CASE ToUpperCase(code) = "KOTAK" -> KotakUploadLines
    [] ToUpperCase(code) = "ICICI" -> IciciUploadLines
    [] OTHER -> HdfcUploadLines

(* handleFileUpload, line 254: const parser = getParser(selectedBank); an  *)
(* Error ends the upload in the catch block.                               *)
CallGetParser ==
  /\ pc = "select"
  /\ parser' = GetParser(docCode).parser
  /\ error' = GetParser(docCode).error
  /\ bank' = IF GetParser(docCode).error = NoError THEN ToUpperCase(docCode) ELSE bank
  /\ pc' = IF GetParser(docCode).error = NoError THEN "raw" ELSE "failed"
  /\ UNCHANGED <<docCode, rawText, cleaned, merged, simplified, categorized,
                 transactions, calls, store, loads, isClient, sinceReset, ui>>

(* saveToDatabase, lines 125-167.  inserted is the answer of the database  *)
(* to the batch insert.                                                    *)
SaveToDatabase ==
  /\ pc = "done"
  /\ IF categorized = <<>>
       THEN /\ error' = "No data to save. Please process a statement first."
            /\ pc' = "not saved"
            /\ UNCHANGED transactions
       ELSE /\ transactions' = ParseCategorizedData(docCode, categorized)
            /\ \E inserted \in BOOLEAN :
                 /\ error' = IF transactions' = <<>>
                                THEN "No valid transactions found to save"
                              ELSE IF inserted THEN NoError
                              ELSE "insert failed"
                 /\ pc' = IF error' = NoError THEN "saved" ELSE "not saved"
  /\ UNCHANGED <<bank, rawText, cleaned, merged, simplified, categorized,
                 docCode, parser, calls, store, loads, isClient, sinceReset, ui>>

UploadInit ==
  /\ docCode \in DocCodes
  /\ bank = "none"
  /\ pc = "select"
  /\ rawText \in TextsOf(UploadLines(docCode), MaxLines)
  /\ cleaned = <<>>
  /\ merged = <<>>
  /\ simplified = <<>>
  /\ categorized = <<>>
  /\ parser = NoParser
  /\ error = NoError
  /\ transactions = <<>>
  /\ calls = <<>>
  /\ store = InitialDataStore
  /\ loads = <<>>
  /\ isClient = TRUE
  /\ sinceReset = "none"
  /\ ui = InitialUi

UploadNext == CallGetParser \/ Clean \/ Simplify \/ Categorize \/ SaveToDatabase

SpecUpload == UploadInit /\ [][UploadNext]_vars

---------------------------------------------------------------------------
(* Instantiating a parser class and calling one of its methods *)

(* BaseParser, the three parsers, and every class that extends BaseParser  *)
(* with some of the five methods.                                          *)
Classes ==
  {BaseParser, HDFCParser, KotakParser, ICICIParser}
    \cup {Subclass(ov) : ov \in SUBSET Methods}

BaseParserInit ==
  /\ pc = "new"
  /\ bank = "none"
  /\ docCode = ""
  /\ parser = NoParser
  /\ error = NoError
  /\ rawText = <<>>
  /\ cleaned = <<>>
  /\ merged = <<>>
  /\ simplified = <<>>
  /\ categorized = <<>>
  /\ transactions = <<>>
  /\ calls = <<>>
  /\ store = InitialDataStore
  /\ loads = <<>>
  /\ isClient = TRUE
  /\ sinceReset = "none"
  /\ ui = InitialUi

(* new cls(): docCode keeps the name of the class, parser the instance. *)
Construct ==
  /\ pc = "new"
  /\ \E cls \in Classes :
       /\ docCode' = cls.class
       /\ error' = ConstructorError(cls)
       /\ parser' = IF ConstructorError(cls) = NoError THEN cls ELSE NoParser
       /\ pc' = IF ConstructorError(cls) = NoError THEN "constructed" ELSE "failed"
  /\ UNCHANGED <<bank, rawText, cleaned, merged, simplified, categorized, transactions, calls, store, loads, isClient, sinceReset, ui>>

(* parser[m](), pc naming the method called. *)
CallMethod ==
  /\ pc = "constructed"
  /\ \E m \in Methods :
       /\ pc' = m
       /\ error' = MethodError(parser, m)
  /\ UNCHANGED <<bank, docCode, parser, rawText, cleaned, merged, simplified,
                 categorized, transactions, calls, store, loads, isClient, sinceReset, ui>>

BaseParserNext == Construct \/ CallMethod

SpecBaseParser == BaseParserInit /\ [][BaseParserNext]_vars

---------------------------------------------------------------------------
(* Invocations of the pipeline operations on parser instances *)

(* Two objects built by new HDFCParser() and one by new ICICIParser(). *)
Instances ==
  {[id |-> 1, class |-> HDFCParser, bank |-> "HDFC"],
   [id |-> 2, class |-> HDFCParser, bank |-> "HDFC"],
   [id |-> 3, class |-> ICICIParser, bank |-> "ICICI"]}

PipelineOps == {"cleanOCROutput", "cleanOCROutputSimplified", "categorizeTransactions"}

(* Texts handed to an operation: a statement of the layout, and a          *)
(* simplified text of it.                                                  *)
CallInputs(b) ==
  IF b = "HDFC"
    THEN { << <<Date(HdfcDate, 1), Pipe, Word("UPI-SHOP"), Amt(10000), Amt(90000)>>,
              <<Word("@OKAXIS")>>,
              <<Date(HdfcDate, 1), Pipe, Word("UPI-SHOP"), Amt(10000), Amt(100000)>> >>,
           << HdfcSimplifiedLine(10000, 100000), HdfcSimplifiedLine(10000, 90000) >> }
    ELSE { << <<Date(IciciDate, 1), Date(IciciDate, 1), Word("UPI/SHOP/123")>>,
              <<Amt(10000), Amt(0), Amt(90000)>> >>,
           << <<Date(IciciDate, 1), Pipe, Word("Salary"), Pipe,
                Amt(0), Amt(10000), Amt(90000)>> >> }

(* Mutant: the patterns are built once per instance with the g flag, so a  *)
(* test that follows an earlier invocation on the instance starts at the   *)
(* lastIndex that invocation left and misses the text's first line.        *)
InvocationSharingPatterns(op, inst, input, earlier) ==
  LET used == \E n \in 1..Len(earlier) : earlier[n].instance = inst
      text == IF used /\ input # <<>> THEN Tail(input) ELSE input
  IN CASE op = "cleanOCROutput" -> CleanOCROutput(inst.bank, text)
       [] op = "cleanOCROutputSimplified" -> CleanOCROutputSimplified(inst.bank, text)
       [] op = "categorizeTransactions" -> CategorizeTransactions(inst.bank, text)

(* What inst[op](input) returns after the invocations earlier.  No         *)
(* operation reads anything an earlier invocation left: getPatterns builds *)
(* its patterns anew on each call, none of them has the g or y flag, no    *)
(* method assigns to a field of this, and the modules keep no variable.    *)
Invocation(op, inst, input, earlier) ==
  CASE op = "cleanOCROutput" -> CleanOCROutput(inst.bank, input)
    [] op = "cleanOCROutputSimplified" -> CleanOCROutputSimplified(inst.bank, input)
    [] op = "categorizeTransactions" -> CategorizeTransactions(inst.bank, input)

CallsInit ==
  /\ pc = "calls"
  /\ bank = "none"
  /\ docCode = ""
  /\ parser = NoParser
  /\ error = NoError
  /\ rawText = <<>>
  /\ cleaned = <<>>
  /\ merged = <<>>
  /\ simplified = <<>>
  /\ categorized = <<>>
  /\ transactions = <<>>
  /\ calls = <<>>
  /\ store = InitialDataStore
  /\ loads = <<>>
  /\ isClient = TRUE
  /\ sinceReset = "none"
  /\ ui = InitialUi

Invoke ==
  /\ pc = "calls"
  /\ Len(calls) < MaxCalls
  /\ \E inst \in Instances : \E op \in PipelineOps : \E input \in CallInputs(inst.bank) :
       calls' = Append(calls, [op |-> op, instance |-> inst, input |-> input,
                               output |-> Invocation(op, inst, input, calls)])
  /\ UNCHANGED <<bank, pc, rawText, cleaned, merged, simplified, categorized,
                 docCode, parser, error, transactions, store, loads, isClient, sinceReset, ui>>

SpecCalls == CallsInit /\ [][Invoke]_vars

---------------------------------------------------------------------------
(* The data store of lib/datastore.js *)

(* The values the callers and the database put into the store. *)
MemValue == Data("mem")
DbValue == Data("db")

(* updateGSTData, updateBankData, updatePnLData (lines 11-27). *)
UpdateGSTDataOf(s, data) == [s EXCEPT !.gstOCROutput = data, !.lastLoaded = "fresh"]
UpdateBankDataOf(s, data) == [s EXCEPT !.categorizedOutput = data, !.lastLoaded = "fresh"]
UpdatePnLDataOf(s, data) == [s EXCEPT !.pnlOCROutput = data, !.lastLoaded = "fresh"]

(* A load waiting at an await.  Client loads wait at "fetch" (line 43) and *)
(* "json" (line 46), server loads at "import" (102), "bank" (114), "gst"   *)
(* (149) and "pnl" (165).                                                  *)
Load(kind, at) == [kind |-> kind, at |-> at, beforeReset |-> FALSE]

RemoveAt(seq, n) == SubSeq(seq, 1, n - 1) \o SubSeq(seq, n + 1, Len(seq))

(* loadFromDatabase up to its first await (lines 35-43): the store and the *)
(* loads after the call.                                                   *)
LoadFromDatabase(s, ls) ==
  IF s.isLoading
    THEN [store |-> s, loads |-> ls]
    ELSE [store |-> [s EXCEPT !.isLoading = TRUE],
          loads |-> Append(ls, Load("client", "fetch"))]

(* loadFromDatabaseServer up to its first await (lines 83-102); without    *)
(* the environment variables it returns at line 98.                        *)
LoadFromDatabaseServer(s, ls, hasEnv) ==
  IF hasEnv
    THEN [store |-> s, loads |-> Append(ls, Load("server", "import"))]
    ELSE [store |-> s, loads |-> ls]

(* Lines 212-213 of getDataStoreAsync. *)
HasData(s) ==
  \/ s.gstOCROutput # NullValue
  \/ s.categorizedOutput # NullValue
  \/ s.pnlOCROutput # NullValue
IsStale(s) == s.lastLoaded # "fresh"

(* What happened since the last resetDataStore, after a write by load l. *)
AfterLoadWrite(l) == IF l.beforeReset THEN sinceReset ELSE "written"

DataStoreInit ==
  /\ pc = "store"
  /\ bank = "none"
  /\ docCode = ""
  /\ parser = NoParser
  /\ error = NoError
  /\ rawText = <<>>
  /\ cleaned = <<>>
  /\ merged = <<>>
  /\ simplified = <<>>
  /\ categorized = <<>>
  /\ transactions = <<>>
  /\ calls = <<>>
  /\ store = InitialDataStore
  /\ loads = <<>>
  /\ isClient \in BOOLEAN
  /\ sinceReset = "none"
  /\ ui = InitialUi

(* getDataStoreAsync up to its await (lines 201-221). *)
GetDataStoreAsync ==
  /\ pc = "store"
  /\ Len(loads) < MaxLoads
  /\ \E hasEnv \in BOOLEAN :
       LET r == IF ~isClient THEN LoadFromDatabaseServer(store, loads, hasEnv)
                ELSE IF ~HasData(store) \/ IsStale(store)
                  THEN LoadFromDatabase(store, loads)
                ELSE [store |-> store, loads |-> loads]
       IN /\ store' = r.store
          /\ loads' = r.loads
  /\ UNCHANGED <<bank, pc, rawText, cleaned, merged, simplified, categorized,
                 docCode, parser, error, transactions, calls, isClient, sinceReset, ui>>

(* refreshDataFromDatabase up to its await (lines 240-246). *)
RefreshDataFromDatabase ==
  /\ pc = "store"
  /\ Len(loads) < MaxLoads
  /\ \E hasEnv \in BOOLEAN :
       LET r == IF isClient THEN LoadFromDatabase(store, loads)
                ELSE LoadFromDatabaseServer(store, loads, hasEnv)
       IN /\ store' = r.store
          /\ loads' = r.loads
  /\ UNCHANGED <<bank, pc, rawText, cleaned, merged, simplified, categorized,
                 docCode, parser, error, transactions, calls, isClient, sinceReset, ui>>

(* fetch settles (lines 43-45, 69-78): with an ok response the load goes   *)
(* on to response.json(); with another response, or when fetch rejects,    *)
(* the load returns false through the finally block.                       *)
FetchSettles ==
  /\ pc = "store"
  /\ \E n \in 1..Len(loads) : \E ok \in BOOLEAN :
       /\ loads[n].kind = "client" /\ loads[n].at = "fetch"
       /\ IF ok
            THEN /\ loads' = [loads EXCEPT ![n].at = "json"]
                 /\ UNCHANGED store
            ELSE /\ loads' = RemoveAt(loads, n)
                 /\ store' = [store EXCEPT !.isLoading = FALSE]
  /\ UNCHANGED <<bank, pc, rawText, cleaned, merged, simplified, categorized,
                 docCode, parser, error, transactions, calls, isClient, sinceReset, ui>>

(* The store after lines 54-67 with the fields the answer carries. *)
ClientWrites(s, bankData, gstData, pnlData) ==
  [s EXCEPT !.categorizedOutput = IF bankData THEN DbValue ELSE @,
            !.gstOCROutput = IF gstData THEN DbValue ELSE @,
            !.pnlOCROutput = IF pnlData THEN DbValue ELSE @,
            !.lastLoaded = "fresh"]

(* response.json() settles (lines 46-68, 73-78): the answer is written to  *)
(* the store, or the rejection is caught; the finally block clears         *)
(* isLoading on both paths.                                                *)
JsonSettles ==
  /\ pc = "store"
  /\ \E n \in 1..Len(loads) : \E ok, bankData, gstData, pnlData \in BOOLEAN :
       /\ loads[n].kind = "client" /\ loads[n].at = "json"
       /\ store' = IF ok
                     THEN [ClientWrites(store, bankData, gstData, pnlData)
                             EXCEPT !.isLoading = FALSE]
                     ELSE [store EXCEPT !.isLoading = FALSE]
       /\ sinceReset' = IF ok THEN AfterLoadWrite(loads[n]) ELSE sinceReset
       /\ loads' = RemoveAt(loads, n)
  /\ UNCHANGED <<bank, pc, rawText, cleaned, merged, simplified, categorized,
                 docCode, parser, error, transactions, calls, isClient, ui>>

(* The import of the Supabase client settles (lines 102-118): the load     *)
(* goes on to the bank query, or returns false from the catch block.       *)
ImportSettles ==
  /\ pc = "store"
  /\ \E n \in 1..Len(loads) : \E ok \in BOOLEAN :
       /\ loads[n].kind = "server" /\ loads[n].at = "import"
       /\ loads' = IF ok THEN [loads EXCEPT ![n].at = "bank"] ELSE RemoveAt(loads, n)
  /\ UNCHANGED <<bank, pc, rawText, cleaned, merged, simplified, categorized,
                 docCode, parser, error, transactions, calls, store, isClient, sinceReset, ui>>

(* The bank query settles (lines 114-153): a row is written to             *)
(* categorizedOutput; a rejection ends the load in the catch block.        *)
BankQuerySettles ==
  /\ pc = "store"
  /\ \E n \in 1..Len(loads) : \E outcome \in {"row", "empty", "rejects"} :
       /\ loads[n].kind = "server" /\ loads[n].at = "bank"
       /\ loads' = IF outcome = "rejects" THEN RemoveAt(loads, n)
                   ELSE [loads EXCEPT ![n].at = "gst"]
       /\ store' = IF outcome = "row"
                     THEN [store EXCEPT !.categorizedOutput = DbValue]
                     ELSE store
       /\ sinceReset' = IF outcome = "row" THEN AfterLoadWrite(loads[n]) ELSE sinceReset
  /\ UNCHANGED <<bank, pc, rawText, cleaned, merged, simplified, categorized,
                 docCode, parser, error, transactions, calls, isClient, ui>>

(* The GST query settles (lines 148-169); its rejection is caught at line  *)
(* 160 and the load goes on.                                               *)
GstQuerySettles ==
  /\ pc = "store"
  /\ \E n \in 1..Len(loads) : \E outcome \in {"row", "empty", "rejects"} :
       /\ loads[n].kind = "server" /\ loads[n].at = "gst"
       /\ loads' = [loads EXCEPT ![n].at = "pnl"]
       /\ store' = IF outcome = "row"
                     THEN [store EXCEPT !.gstOCROutput = DbValue]
                     ELSE store
       /\ sinceReset' = IF outcome = "row" THEN AfterLoadWrite(loads[n]) ELSE sinceReset
  /\ UNCHANGED <<bank, pc, rawText, cleaned, merged, simplified, categorized,
                 docCode, parser, error, transactions, calls, isClient, ui>>

(* The P&L query settles (lines 164-188); its rejection is caught at line  *)
(* 176, and the load ends with lastLoaded set.                             *)
PnlQuerySettles ==
  /\ pc = "store"
  /\ \E n \in 1..Len(loads) : \E outcome \in {"row", "empty", "rejects"} :
       /\ loads[n].kind = "server" /\ loads[n].at = "pnl"
       /\ loads' = RemoveAt(loads, n)
       /\ store' = [store EXCEPT !.pnlOCROutput = IF outcome = "row" THEN DbValue ELSE @,
                                 !.lastLoaded = "fresh"]
       /\ sinceReset' = AfterLoadWrite(loads[n])
  /\ UNCHANGED <<bank, pc, rawText, cleaned, merged, simplified, categorized,
                 docCode, parser, error, transactions, calls, isClient, ui>>

(* One of the three update functions is called. *)
Update ==
  /\ pc = "store"
  /\ \E f \in {"updateGSTData", "updateBankData", "updatePnLData"} :
       store' = CASE f = "updateGSTData" -> UpdateGSTDataOf(store, MemValue)
                  [] f = "updateBankData" -> UpdateBankDataOf(store, MemValue)
                  [] f = "updatePnLData" -> UpdatePnLDataOf(store, MemValue)
  /\ sinceReset' = "written"
  /\ UNCHANGED <<bank, pc, rawText, cleaned, merged, simplified, categorized,
                 docCode, parser, error, transactions, calls, loads, isClient, ui>>

(* resetDataStore (lines 255-264): dataStore is bound to a new object. *)
ResetDataStoreOf(s) == InitialDataStore

ResetDataStore ==
  /\ pc = "store"
  /\ store' = ResetDataStoreOf(store)
  /\ loads' = [n \in 1..Len(loads) |-> [loads[n] EXCEPT !.beforeReset = TRUE]]
  /\ sinceReset' = "clean"
  /\ UNCHANGED <<bank, pc, rawText, cleaned, merged, simplified, categorized,
                 docCode, parser, error, transactions, calls, isClient, ui>>

(* More than 300000 ms go by since lastLoaded. *)
TimePasses ==
  /\ pc = "store"
  /\ store.lastLoaded = "fresh"
  /\ store' = [store EXCEPT !.lastLoaded = "stale"]
  /\ UNCHANGED <<bank, pc, rawText, cleaned, merged, simplified, categorized,
                 docCode, parser, error, transactions, calls, loads, isClient, sinceReset, ui>>

DataStoreNext ==
  \/ GetDataStoreAsync \/ RefreshDataFromDatabase
  \/ FetchSettles \/ JsonSettles
  \/ ImportSettles \/ BankQuerySettles \/ GstQuerySettles \/ PnlQuerySettles
  \/ Update \/ ResetDataStore \/ TimePasses

SpecDataStore == DataStoreInit /\ [][DataStoreNext]_vars

---------------------------------------------------------------------------
(* handleFileUpload of the upload component (part_002, lines 235-287) *)

(* The files the input element can hand over: none, a PDF, another type. *)
Files == {"none", "pdf", "other"}

(* !extractedText.trim() (line 272): nothing but whitespace. *)
IsEmptyText(text) == \A n \in 1..Len(text) : text[n] = Blank

(* What an extraction can resolve with for the selected bank. *)
ExtractedTexts(code) == TextsOf(UploadLines(code) \cup {Blank}, MaxLines)

(* The catch block (lines 279-283) prefixes the message of the Error. *)
ProcessingError == "Error processing PDF: "

(* The finally block (lines 284-286). *)
Finally(u) == [u EXCEPT !.loading = FALSE]

(* onProcessComplete(v), when the component was given one. *)
Report(u, v) == [u EXCEPT !.reported = Append(@, v)]

HandleFileUploadInit ==
  /\ pc = "idle"
  /\ docCode \in DocCodes
  /\ bank = "none"
  /\ parser = NoParser
  /\ error = NoError
  /\ rawText = <<>>
  /\ cleaned = <<>>
  /\ merged = <<>>
  /\ simplified = <<>>
  /\ categorized = <<>>
  /\ transactions = <<>>
  /\ calls = <<>>
  /\ store = InitialDataStore
  /\ loads = <<>>
  /\ isClient = TRUE
  /\ sinceReset = "none"
  /\ ui = InitialUi

(* handleFileUpload up to its first await (lines 235-262): the two early   *)
(* returns, the resets, and getParser, whose Error ends the handler in the *)
(* catch and finally blocks.                                               *)
HandleFileUpload ==
  /\ pc = "idle"
  /\ \E file \in Files :
       IF file = "none"
         THEN /\ pc' = "finished"
              /\ UNCHANGED <<bank, parser, error, ui>>
       ELSE IF file = "other"
         THEN /\ error' = "Please upload a PDF file"
              /\ pc' = "finished"
              /\ UNCHANGED <<bank, parser, ui>>
       ELSE IF GetParser(docCode).error # NoError
         THEN /\ error' = ProcessingError
              /\ ui' = Finally(Report(Report([ui EXCEPT !.loading = TRUE], FALSE), FALSE))
              /\ pc' = "finished"
              /\ UNCHANGED <<bank, parser>>
       ELSE /\ error' = NoError
            /\ ui' = Report([ui EXCEPT !.loading = TRUE], FALSE)
            /\ parser' = GetParser(docCode).parser
            /\ bank' = ToUpperCase(docCode)
            /\ pc' = "extracting"
  /\ UNCHANGED <<docCode, rawText, cleaned, merged, simplified, categorized,
                 transactions, calls, store, loads, isClient, sinceReset>>

(* The extraction settles (lines 257-287).  A rejection ends the handler   *)
(* in the catch and finally blocks; with a text the three parser           *)
(* operations run, updateBankData gets the categorized text, and only      *)
(* then is the text tested for being empty.                                *)
ExtractionSettles ==
  /\ pc = "extracting"
  /\ \/ /\ error' = ProcessingError
        /\ ui' = Finally(Report(ui, FALSE))
        /\ UNCHANGED <<rawText, cleaned, merged, simplified, categorized, store>>
     \/ \E text \in ExtractedTexts(docCode) :
          /\ rawText' = text
          /\ merged' = CleanRecords(bank, text, 1)
          /\ cleaned' = CleanOCROutput(bank, text)
          /\ simplified' = CleanOCROutputSimplified(bank, text)
          /\ categorized' = CategorizeTransactions(bank, simplified')
          /\ store' = UpdateBankDataOf(store, Data(categorized'))
          /\ IF IsEmptyText(text)
               THEN /\ error' = "No text found. Try enabling OCR mode for image-based PDFs."
                    /\ ui' = Finally([ui EXCEPT !.loading = FALSE])
               ELSE /\ error' = error
                    /\ ui' = Finally(Report(ui, TRUE))
  /\ pc' = "finished"
  /\ UNCHANGED <<bank, docCode, parser, transactions, calls, loads, isClient,
                 sinceReset>>

HandleFileUploadNext == HandleFileUpload \/ ExtractionSettles

SpecHandleFileUpload == HandleFileUploadInit /\ [][HandleFileUploadNext]_vars

---------------------------------------------------------------------------
(* parseTransactionLine called on one record, next to the pipeline *)

(* Dated records that lack one of the amounts of the layout. *)
ShortRecordLines(b) ==
  CASE b = "HDFC" -> {<<Date(HdfcDate, 1), Pipe, Word("UPI-SHOP"), Amt(90000)>>}
    [] b = "KOTAK" -> {<<Date(KotakDate, 1), Word("UPI/SHOP/123"), Amt(10000)>>}
    [] b = "ICICI" -> {<<Date(IciciDate, 1), Date(IciciDate, 1), Word("UPI/SHOP/123"),
                         Amt(10000), Amt(90000)>>}

(* Records handed to parseTransactionLine. *)
RecordLines(b) == (RawLines(b) \cup UploadLines(b) \cup ShortRecordLines(b)) \ {Blank}

ParseRecordInit ==
  /\ bank \in Banks
  /\ pc = "record"
  /\ rawText \in {<<line>> : line \in RecordLines(bank)}
  /\ cleaned = <<>>
  /\ merged = <<>>
  /\ simplified = <<>>
  /\ categorized = <<>>
  /\ docCode = bank
  /\ parser = ParserOf(bank)
  /\ error = NoError
  /\ transactions = <<>>
  /\ calls = <<>>
  /\ store = InitialDataStore
  /\ loads = <<>>
  /\ isClient = TRUE
  /\ sinceReset = "none"
  /\ ui = InitialUi

(* parser.parseTransactionLine(record): the string returned, or nothing    *)
(* for null.                                                               *)
ParseRecord ==
  /\ pc = "record"
  /\ simplified' = IF ParseTransactionLine(bank, rawText[1]) = Null
                     THEN <<>>
                     ELSE <<ParseTransactionLine(bank, rawText[1])>>
  /\ pc' = "parsed"
  /\ UNCHANGED <<bank, rawText, cleaned, merged, categorized,
                 docCode, parser, error, transactions, calls,
          store, loads, isClient, sinceReset, ui>>

ParseInit == PipelineInit \/ ParseRecordInit

ParseNext == PipelineNext \/ ParseRecord

SpecParse == ParseInit /\ [][ParseNext]_vars

---------------------------------------------------------------------------
(* Reading the HDFC categorizer's input and output back *)

Done == pc = "done"

(* The lines the categorizer iterates over, and its output lines: one per  *)
(* input line, in order.                                                   *)
InLines == NonBlank(simplified)
OutLines == NonBlank(categorized)

HdfcParsed(i) == HdfcSimplifiedMatch(InLines[i])

(* The TYPE field of output line i: its last token. *)
OutType(i) == OutLines[i][Len(OutLines[i])].s

(* Record i (i > 1) and its predecessor are both parsable. *)
HdfcHasPredecessor(i) == i > 1 /\ HdfcParsed(i) /\ HdfcParsed(i - 1)

PrevBal(i) == HdfcBalance(InLines[i - 1])
CurAmt(i) == HdfcAmount(InLines[i])
CurBal(i) == HdfcBalance(InLines[i])

(* The branch of lines 214-221 taken for <<prev, amt, cur>>. *)
HdfcMatchAccepted(prev, amt, cur) ==
  \/ DebitDiffLower(prev, amt, cur) /\ DebitDiffBelowTolerance(prev, amt, cur)
  \/ CreditDiffLower(prev, amt, cur) /\ CreditDiffBelowTolerance(prev, amt, cur)

---------------------------------------------------------------------------
(* C1: HDFC categorizeTransactions, for every record after the first whose *)
(* preceding line is parsable and whose amount is positive: a balance      *)
(* equal to the previous balance minus the amount is typed DEBIT, and a    *)
(* balance equal to the previous balance plus the amount is typed CREDIT.  *)
C1_ExactReconciliation ==
  (Done /\ bank = "HDFC") =>
    \A i \in 1..Len(InLines) :
      (HdfcHasPredecessor(i) /\ CurAmt(i) > 0) =>
        /\ (CurBal(i) = PrevBal(i) - CurAmt(i)) => OutType(i) = "DEBIT"
        /\ (CurBal(i) = PrevBal(i) + CurAmt(i)) => OutType(i) = "CREDIT"

(* Balances 1000.00, 900.00, 1050.00 with amounts 100.00 and 150.00 have   *)
(* been categorized DEBIT then CREDIT.                                     *)
C1_Witness ==
  /\ Done /\ bank = "HDFC"
  /\ simplified = <<HdfcSimplifiedLine(0, 100000),
                    HdfcSimplifiedLine(10000, 90000),
                    HdfcSimplifiedLine(15000, 105000)>>
  /\ OutType(2) = "DEBIT"
  /\ OutType(3) = "CREDIT"

---------------------------------------------------------------------------
(* C2 as stated: for every record after the first with a parsable          *)
(* predecessor, when the balance differs from both expected balances by    *)
(* 0.01 or more, no reconciliation match is accepted and the type is       *)
(* DEBIT if the balance decreased, otherwise CREDIT.                       *)
C2_AsStated ==
  (Done /\ bank = "HDFC") =>
    \A i \in 1..Len(InLines) :
      (/\ HdfcHasPredecessor(i)
       /\ DebitDiffExact(PrevBal(i), CurAmt(i), CurBal(i)) >= 1
       /\ CreditDiffExact(PrevBal(i), CurAmt(i), CurBal(i)) >= 1) =>
        /\ ~HdfcMatchAccepted(PrevBal(i), CurAmt(i), CurBal(i))
        /\ OutType(i) = HdfcBalanceChangeType(PrevBal(i), CurBal(i))

(* C2, amended: when the balance differs from both expected balances by    *)
(* 0.02 or more, no reconciliation match is accepted and the type is       *)
(* DEBIT if the balance decreased, otherwise CREDIT (also when the balance *)
(* is unchanged).                                                          *)
C2_TwoCentMismatchFallsBack ==
  (Done /\ bank = "HDFC") =>
    \A i \in 1..Len(InLines) :
      (/\ HdfcHasPredecessor(i)
       /\ DebitDiffExact(PrevBal(i), CurAmt(i), CurBal(i)) >= 2
       /\ CreditDiffExact(PrevBal(i), CurAmt(i), CurBal(i)) >= 2) =>
        /\ ~HdfcMatchAccepted(PrevBal(i), CurAmt(i), CurBal(i))
        /\ OutType(i) = HdfcBalanceChangeType(PrevBal(i), CurBal(i))

(* 1000.00 followed by amount 100.00 and balance 900.02: a mismatch of     *)
(* exactly 0.02 against the debit expectation, typed by the fallback.      *)
C2_Witness ==
  /\ Done /\ bank = "HDFC"
  /\ Len(InLines) >= 2
  /\ InLines[1] = HdfcSimplifiedLine(0, 100000)
  /\ InLines[2] = HdfcSimplifiedLine(10000, 90002)
  /\ DebitDiffExact(PrevBal(2), CurAmt(2), CurBal(2)) = 2
  /\ OutType(2) = "DEBIT"

---------------------------------------------------------------------------
(* C3 as stated: when the first record's balance minus the second          *)
(* record's balance equals the second record's amount and the balance      *)
(* decreased, the first record is typed DEBIT (balances 500.00, 400.00     *)
(* with second amount 100.00).                                             *)
C3_AsStated ==
  (Done /\ bank = "HDFC") =>
    ((/\ Len(InLines) >= 2
      /\ HdfcParsed(1) /\ HdfcParsed(2)
      /\ HdfcBalance(InLines[1]) - HdfcBalance(InLines[2]) = HdfcAmount(InLines[2])
      /\ HdfcBalance(InLines[1]) > HdfcBalance(InLines[2])) =>
       OutType(1) = "DEBIT")

(* C3, amended: in that case the first record is typed CREDIT. *)
C3_LookaheadGivesCredit ==
  (Done /\ bank = "HDFC") =>
    ((/\ Len(InLines) >= 2
      /\ HdfcParsed(1) /\ HdfcParsed(2)
      /\ HdfcBalance(InLines[1]) - HdfcBalance(InLines[2]) = HdfcAmount(InLines[2])
      /\ HdfcBalance(InLines[1]) > HdfcBalance(InLines[2])) =>
       OutType(1) = "CREDIT")

(* The two-record sequence 500.00, 400.00 with second amount 100.00 has    *)
(* been categorized, the first record as CREDIT.                           *)
C3_Witness ==
  /\ Done /\ bank = "HDFC"
  /\ simplified = <<HdfcSimplifiedLine(10000, 50000),
                    HdfcSimplifiedLine(10000, 40000)>>
  /\ OutType(1) = "CREDIT"

---------------------------------------------------------------------------
(* C4: HDFC categorizeTransactions types a parsed record UNKNOWN if and    *)
(* only if it is the first line and the line after it is absent or not     *)
(* parsable, or it is a later line whose preceding line is not parsable;   *)
(* every other parsed record is typed DEBIT or CREDIT, never left empty.   *)
HdfcNoEvidence(i) ==
  \/ i = 1 /\ (Len(InLines) < 2 \/ ~HdfcParsed(2))
  \/ i > 1 /\ ~HdfcParsed(i - 1)

C4_UnknownIffNoEvidence ==
  (Done /\ bank = "HDFC") =>
    \A i \in 1..Len(InLines) :
      HdfcParsed(i) =>
        /\ OutType(i) \in {"DEBIT", "CREDIT", "UNKNOWN"}
        /\ (OutType(i) = "UNKNOWN") <=> HdfcNoEvidence(i)

(* Both cases have happened in one run: a junk line between two records    *)
(* leaves the record after it UNKNOWN, and the first record, followed by   *)
(* the junk line, is UNKNOWN too.                                          *)
C4_Witness ==
  /\ Done /\ bank = "HDFC"
  /\ Len(InLines) = 3
  /\ HdfcParsed(1) /\ ~HdfcParsed(2) /\ HdfcParsed(3)
  /\ OutType(1) = "UNKNOWN"
  /\ OutType(3) = "UNKNOWN"

---------------------------------------------------------------------------
(* Reading the output of categorizeTransactions of any variant *)

(* The amount field of output line i: the token before the last |. *)
OutAmount(i) == OutLines[i][Len(OutLines[i]) - 2]

Types == {"DEBIT", "CREDIT", "UNKNOWN"}

---------------------------------------------------------------------------
(* C5: ICICI categorizeTransactions, for every simplified line carrying    *)
(* withdrawal, deposit and balance numbers: a withdrawal above zero with a *)
(* zero deposit gives DEBIT with the withdrawal as amount, a deposit above *)
(* zero with a zero withdrawal gives CREDIT with the deposit as amount,    *)
(* both zero or both non-zero gives UNKNOWN.                               *)
IciciColumns(line) == SplitAtPipes(line)[3]
IciciCarriesColumns(line) ==
  /\ Len(SplitAtPipes(line)) >= 3
  /\ Len(IciciColumns(line)) >= 3
IciciInLines == SelectSeq(simplified, IciciCarriesColumns)
IsNumber(t) == t.k = "amt"

C5_IciciColumnRule ==
  (Done /\ bank = "ICICI") =>
    /\ Len(OutLines) = Len(IciciInLines)
    /\ \A i \in 1..Len(IciciInLines) :
         LET w == IciciColumns(IciciInLines[i])[1]
             d == IciciColumns(IciciInLines[i])[2]
         IN (IsNumber(w) /\ IsNumber(d)) =>
              /\ (w.v > 0 /\ d.v = 0) => (OutType(i) = "DEBIT" /\ OutAmount(i) = w)
              /\ (d.v > 0 /\ w.v = 0) => (OutType(i) = "CREDIT" /\ OutAmount(i) = d)
              /\ (w.v = 0 /\ d.v = 0) => OutType(i) = "UNKNOWN"
              /\ (w.v # 0 /\ d.v # 0) => OutType(i) = "UNKNOWN"

(* A withdrawal, a deposit and a line with both columns non-zero have been *)
(* categorized DEBIT, CREDIT and UNKNOWN.                                  *)
C5_Witness ==
  /\ Done /\ bank = "ICICI"
  /\ simplified =
       << <<Date(IciciDate, 1), Pipe, Word("Salary"), Pipe, Amt(10000), Amt(0), Amt(90000)>>,
          <<Date(IciciDate, 1), Pipe, Word("Salary"), Pipe, Amt(0), AmtAs("int", 50000), Amt(90000)>>,
          <<Date(IciciDate, 1), Pipe, Word("Salary"), Pipe, Amt(10000), Amt(10000), Amt(90000)>> >>
  /\ OutType(1) = "DEBIT" /\ OutAmount(1) = Amt(10000)
  /\ OutType(2) = "CREDIT" /\ OutAmount(2) = AmtAs("int", 50000)
  /\ OutType(3) = "UNKNOWN"

---------------------------------------------------------------------------
(* C6 as stated: Kotak categorizeTransactions types every simplified line  *)
(* whose amount carries (Cr) as CREDIT and every line whose amount carries *)
(* (Dr) as DEBIT, copies the amount without the suffix, never emits        *)
(* UNKNOWN, and the suffix used is the one on the first suffixed number of *)
(* the source line.                                                        *)
KotakSimplifiedAmount(line) == line[KotakAmountPipe(line) + 1]
KotakInLines == SelectSeq(InLines, KotakSimplifiedMatch)
KotakSourceLines ==
  SelectSeq(NonBlank(rawText), LAMBDA l : KotakParseTransactionLine(l) # Null)
FirstSuffixed(line) ==
  line[FirstIndexIn({i \in 1..Len(line) : IsSuffixedAmount(line[i])})]
SuffixType(t) == IF t.s = "(Cr)" THEN "CREDIT" ELSE "DEBIT"

KotakSuffixLookup ==
  /\ Len(OutLines) = Len(KotakInLines)
  /\ \A i \in 1..Len(KotakInLines) :
       /\ OutType(i) = SuffixType(KotakSimplifiedAmount(KotakInLines[i]))
       /\ OutAmount(i) = Amt(KotakSimplifiedAmount(KotakInLines[i]).v)

C6_AsStated ==
  (Done /\ bank = "KOTAK") =>
    /\ KotakSuffixLookup
    /\ Len(OutLines) = Len(KotakSourceLines)
    /\ \A i \in 1..Len(OutLines) :
         OutType(i) = SuffixType(FirstSuffixed(KotakSourceLines[i]))

(* The source line with no description, 100.00(Dr) 5,000.00(Cr) after the  *)
(* date, has been categorized: CREDIT with amount 5,000.00.                *)
C6_Witness ==
  /\ Done /\ bank = "KOTAK"
  /\ rawText = << <<Date(KotakDate, 1), AmtAs("(Dr)", 10000), AmtAs("(Cr)", 500000)>> >>
  /\ Len(OutLines) = 1
  /\ OutType(1) = "CREDIT"
  /\ OutAmount(1) = Amt(500000)

---------------------------------------------------------------------------
(* C7: in cleanOCROutput of every variant, a line that matches both a      *)
(* header pattern and a continuation pattern (or the plausible-data        *)
(* heuristic) is never part of a merged record, so a record in progress    *)
(* ends before it; each record is the text of the lines of its range.      *)
Cleaned == pc # "raw"

(* ICICI patterns.continuation, /^\s*[a-zA-Z\s\/]+$/: letters only. *)
IciciIsContinuationLine(line) ==
  line # <<>> /\ OnlyWords(line, {"ICICI", "Bank", "Paid", "Salary", "ATM"})

MatchesContinuation(b, line) ==
  IF b = "ICICI" THEN IciciIsContinuationLine(line) ELSE CleanAccepts(b, line)

IsAmbiguousLine(b, line) == IsHeaderLine(b, line) /\ MatchesContinuation(b, line)

RECURSIVE RangeText(_, _, _, _)
RangeText(b, lines, f, l) ==
  IF l <= f THEN lines[f]
  ELSE CleanAppend(b, RangeText(b, lines, f, l - 1), lines[l])

C7_HeaderWinsOverContinuation ==
  Cleaned =>
    /\ cleaned = JoinBlank(RecordTexts(merged))
    /\ \A n \in 1..Len(merged) :
         merged[n].text = RangeText(bank, rawText, merged[n].first, merged[n].last)
    /\ \A k \in 1..Len(rawText) :
         IsAmbiguousLine(bank, rawText[k]) =>
           \A n \in 1..Len(merged) : ~(merged[n].first <= k /\ k <= merged[n].last)

(* A transaction-start line directly followed by a line that is a header   *)
(* and a continuation at once has been cleaned: its record is that one     *)
(* line.                                                                   *)
C7_Witness ==
  /\ Cleaned /\ bank \in {"HDFC", "KOTAK"}
  /\ \E k \in 2..Len(rawText) :
       /\ IsAmbiguousLine(bank, rawText[k])
       /\ \E n \in 1..Len(merged) : merged[n].first = k - 1 /\ merged[n].last = k - 1

---------------------------------------------------------------------------
(* C8: for any input whose transaction-start lines have no header line     *)
(* from the first of them to the last, cleanOCROutput emits exactly one    *)
(* merged record per transaction-start line, whatever number of            *)
(* continuation lines follows each.                                        *)
StartLines == {k \in 1..Len(rawText) : IsTransactionStart(bank, rawText[k])}
NoHeaderBetweenStarts ==
  \A k \in 1..Len(rawText) :
    ((\E a \in StartLines : a <= k) /\ (\E z \in StartLines : k <= z)) =>
      ~IsHeaderLine(bank, rawText[k])

---------------------------------------------------------------------------
(* C9 as stated: for every variant and every raw text,                     *)
(* cleanOCROutputSimplified(raw) is parseTransactionLine applied to each   *)
(* merged record of cleanOCROutput(raw), in order, keeping the non-null    *)
(* results.                                                                *)
Simplified == pc \in {"simplified", "done"}

C9_AsStated ==
  Simplified =>
    NonBlank(simplified) = ParseAll(bank, RecordTexts(merged))

(* An HDFC transaction wrapped over two lines has been simplified: the     *)
(* merged record parses, the simplified text is empty.                     *)
C9_Witness ==
  /\ Simplified /\ bank = "HDFC"
  /\ rawText = << <<Date(HdfcDate, 1), Pipe, Word("UPI-SHOP")>>,
                  <<Amt(10000), Amt(90000)>> >>
  /\ Len(ParseAll(bank, RecordTexts(merged))) = 1
  /\ simplified = <<>>

---------------------------------------------------------------------------
(* C10 as stated: every non-blank output line of categorizeTransactions,   *)
(* for every variant and every input text, has exactly the four fields     *)
(* date | description | amount | TYPE with TYPE DEBIT, CREDIT or UNKNOWN,  *)
(* and an input line that cannot be parsed contributes no output line.     *)
CategorizeParses(b, line) ==
  CASE b = "HDFC" -> HdfcSimplifiedMatch(line)
    [] b = "KOTAK" -> KotakSimplifiedMatch(line)
    [] b = "ICICI" -> IciciCarriesColumns(line)
ParsableInLines == SelectSeq(InLines, LAMBDA l : CategorizeParses(bank, l))

IsTypeToken(t) == t.k = "word" /\ t.s \in Types
HasFourFields(line) ==
  /\ PipeCount(line) = 3
  /\ Len(line) >= 3
  /\ IsPipe(line[Len(line) - 1])
  /\ IsTypeToken(line[Len(line)])

DescriptionOf(b, line) ==
  CASE b = "HDFC" -> HdfcDesc(line)
    [] b = "KOTAK" -> SubSeq(line, 3, KotakAmountPipe(line) - 1)
    [] b = "ICICI" -> SplitAtPipes(line)[2]

---------------------------------------------------------------------------
(* C11: the amount of every categorized transaction, in every variant and  *)
(* in every record parseCategorizedData builds, is a number that is not    *)
(* negative, whichever sign or column the number had in the uploaded text. *)
Categorized == pc \in {"done", "saved", "not saved"}

---------------------------------------------------------------------------
(* C12 as stated: the amount field of every categorized transaction is a   *)
(* number written with exactly two fraction digits, in every variant, for  *)
(* ICICI also when the withdrawal or deposit of the source is written      *)
(* without a fraction part.                                                *)
C12_AsStated ==
  Categorized =>
    \A i \in 1..Len(OutLines) : IsPlainAmount(OutAmount(i))

(* An ICICI withdrawal written 500 has been categorized: its amount field  *)
(* is 500, as in the source.                                               *)
C12_Witness ==
  /\ Categorized /\ bank = "ICICI"
  /\ rawText = << <<Date(IciciDate, 1), Date(IciciDate, 1), Word("ATM"),
                    AmtAs("int", 50000), Amt(0), Amt(40000)>> >>
  /\ Len(OutLines) = 1
  /\ OutAmount(1) = AmtAs("int", 50000)

---------------------------------------------------------------------------
(* C13: parseTransactionLine of every variant returns null for a record    *)
(* that holds monetary tokens and does not start with a date in the        *)
(* variant's format (for ICICI, after an optional serial number), and such *)
(* a record among those cleanOCROutputSimplified parses leaves no line in  *)
(* the simplified output: the output has one line fewer for each.          *)
HasMonetaryToken(line) == ExtractCurrencyAmounts(line) # <<>>

DateAtStart(b, line) ==
  /\ line # <<>>
  /\ CASE b = "HDFC" -> IsHdfcDate(line[1])
        [] b = "KOTAK" -> IsKotakDate(line[1])
        [] b = "ICICI" ->
             \/ IsIciciDate(line[1])
             \/ Len(line) >= 2 /\ IsSerial(line[1]) /\ IsIciciDate(line[2])

Undated(b, line) == HasMonetaryToken(line) /\ ~DateAtStart(b, line)

(* The records cleanOCROutputSimplified hands to parseTransactionLine. *)
ParsedRecords == IF bank = "ICICI" THEN RecordTexts(merged) ELSE NonBlank(rawText)

C13_UndatedRecordDropped ==
  /\ (pc = "parsed" /\ Undated(bank, rawText[1])) => simplified = <<>>
  /\ Simplified =>
       Len(NonBlank(simplified))
         + Cardinality({n \in 1..Len(ParsedRecords) : Undated(bank, ParsedRecords[n])})
           <= Len(ParsedRecords)

(* An HDFC text of a transaction line and an amount line without a date    *)
(* has been simplified to one line.                                        *)
C13_Witness ==
  /\ Simplified /\ bank = "HDFC"
  /\ rawText = << <<Date(HdfcDate, 1), Pipe, Word("UPI-SHOP"), Amt(10000), Amt(90000)>>,
                  <<Amt(10000), Amt(90000)>> >>
  /\ Undated(bank, rawText[2])
  /\ Len(NonBlank(simplified)) = 1

---------------------------------------------------------------------------
(* C14: parseTransactionLine returns null for a record that starts with    *)
(* the date of the layout and holds fewer than two currency tokens (HDFC), *)
(* fewer than three numbers after its two dates (ICICI), or no amount with *)
(* a (Dr) or (Cr) suffix (Kotak); such a record among those                *)
(* cleanOCROutputSimplified parses leaves no line in the simplified output.*)
AfterDates(line) ==
  SubSeq(line, IF IsIciciDate(line[1]) THEN 3 ELSE 4, Len(line))

TooFewAmounts(b, line) ==
  /\ line # <<>>
  /\ CASE b = "HDFC" ->
             IsHdfcDate(line[1]) /\ Len(ExtractCurrencyAmounts(line)) < 2
        [] b = "KOTAK" ->
             IsKotakDate(line[1]) /\ ~\E i \in 1..Len(line) : IsSuffixedAmount(line[i])
        [] b = "ICICI" ->
             /\ IciciTransactionPattern(line)
             /\ Len(SelectSeq(AfterDates(line), IsNumberToken)) < 3

C14_ShortRecordDropped ==
  /\ (pc = "parsed" /\ TooFewAmounts(bank, rawText[1])) => simplified = <<>>
  /\ Simplified =>
       Len(NonBlank(simplified))
         + Cardinality({n \in 1..Len(ParsedRecords) :
                          TooFewAmounts(bank, ParsedRecords[n])})
           <= Len(ParsedRecords)

(* parseTransactionLine has returned null for a Kotak record with a date,  *)
(* a description and an amount without a suffix.                           *)
C14_Witness ==
  /\ pc = "parsed" /\ bank = "KOTAK"
  /\ rawText = << <<Date(KotakDate, 1), Word("UPI/SHOP/123"), Amt(10000)>> >>
  /\ TooFewAmounts(bank, rawText[1])
  /\ simplified = <<>>

---------------------------------------------------------------------------
(* C15: as stated, a record with a date and enough monetary tokens but no  *)
(* description text is still emitted with the description "Transaction"    *)
(* or "Unknown Transaction", and no line of a variant's categorized output *)
(* has an empty description field.                                         *)
OutDescription(i) == SplitAtPipes(OutLines[i])[2]

Placeholders == {<<Word("Transaction")>>, <<Word("Unknown"), Word("Transaction")>>}

(* A record with its date and its amounts and no word in between. *)
NoDescription(b, line) ==
  /\ DateAtStart(b, line)
  /\ ~\E i \in 1..Len(line) : line[i].k = "word"
  /\ CASE b = "HDFC" -> Len(ExtractCurrencyAmounts(line)) >= 2
        [] b = "KOTAK" -> \E i \in 1..Len(line) : IsSuffixedAmount(line[i])
        [] b = "ICICI" ->
             /\ IciciTransactionPattern(line)
             /\ Len(SelectSeq(AfterDates(line), IsNumberToken)) >= 3

C15_AsStated ==
  Categorized =>
    /\ \A i \in 1..Len(OutLines) :
         Len(SplitAtPipes(OutLines[i])) = 4 => OutDescription(i) # <<>>
    /\ (Len(rawText) = 1 /\ NoDescription(bank, rawText[1])) =>
         /\ Len(OutLines) = 1
         /\ Len(SplitAtPipes(OutLines[1])) = 4
         /\ OutDescription(1) \in Placeholders

(* An HDFC line of a date, an amount and a balance has been categorized    *)
(* with an empty description field.                                        *)
C15_Witness ==
  /\ Categorized /\ bank = "HDFC"
  /\ rawText = << <<Date(HdfcDate, 1), Pipe, Amt(10000), Amt(90000)>> >>
  /\ NoDescription(bank, rawText[1])
  /\ Len(OutLines) = 1
  /\ Len(SplitAtPipes(OutLines[1])) = 4
  /\ OutDescription(1) = <<>>

---------------------------------------------------------------------------
(* C16: getParser called with the empty code, or with a code that is none  *)
(* of HDFC, KOTAK and ICICI when upper-cased, throws and returns no parser *)
(* object: the upload ends there with no parser of any variant and no      *)
(* output; with a code of one of the three banks it returns that bank's    *)
(* parser.                                                                 *)
Unsupported(code) == code = "" \/ ToUpperCase(code) \notin Banks

C16_UnknownCodeRaises ==
  pc # "select" =>
    IF Unsupported(docCode)
      THEN /\ pc = "failed"
           /\ error # NoError
           /\ parser = NoParser
           /\ bank = "none"
           /\ cleaned = <<>> /\ simplified = <<>> /\ categorized = <<>>
      ELSE /\ pc # "failed"
           /\ bank = ToUpperCase(docCode)
           /\ parser = ParserOf(bank)
           /\ parser.class \in {"HDFCParser", "KotakParser", "ICICIParser"}

(* getParser has thrown for the code SBI over a statement with a           *)
(* transaction line.                                                       *)
C16_Witness ==
  /\ docCode = "SBI" /\ Unsupported(docCode)
  /\ pc = "failed"
  /\ error = "Parser not implemented for code"
  /\ parser = NoParser
  /\ rawText = << <<Date(HdfcDate, 1), Pipe, Word("UPI-SHOP"), Amt(10000), Amt(90000)>> >>

---------------------------------------------------------------------------
(* C17: new BaseParser() throws and gives no instance; a call of one of    *)
(* the five methods on an instance of a class extending BaseParser throws  *)
(* exactly when the class does not define the method; and no method call   *)
(* on an HDFCParser, KotakParser or ICICIParser reaches BaseParser's       *)
(* throwing method.                                                        *)
C17_AbstractBaseParser ==
  /\ (pc # "new" /\ docCode = "BaseParser") =>
       pc = "failed" /\ error # NoError /\ parser = NoParser
  /\ (pc # "new" /\ docCode # "BaseParser") => pc # "failed"
  /\ pc \in Methods => (error # NoError <=> pc \notin parser.overrides)
  /\ (pc \in Methods /\ parser \in {HDFCParser, KotakParser, ICICIParser}) =>
       error = NoError

(* categorizeTransactions has been called on an instance of a subclass     *)
(* that defines getPatterns only, and has thrown.                          *)
C17_Witness ==
  /\ pc = "categorizeTransactions"
  /\ parser = Subclass({"getPatterns"})
  /\ error = "method must be implemented by subclass"

---------------------------------------------------------------------------
(* C18: the three operations return without an error for every text, and a *)
(* line from which no record is resolved, inserted anywhere into the text, *)
(* leaves cleanOCROutput, cleanOCROutputSimplified and                     *)
(* categorizeTransactions with at least as many records as before.         *)
InsertLine(text, k, line) == SubSeq(text, 1, k - 1) \o <<line>> \o SubSeq(text, k, Len(text))

(* Lines that start no record and parse to none: a blank line, a line of   *)
(* text, a header line and a line of amounts without a date.               *)
UnparsableLines(b) ==
  {Blank, <<Word("Paid")>>}
    \cup CASE b = "HDFC" -> {<<Word("RTGS/NEFT")>>, <<Amt(10000), Amt(90000)>>}
            [] b = "KOTAK" -> {<<Word("KOTAK")>>,
                               <<Word("UPI-123"), AmtAs("(Dr)", 10000),
                                 AmtAs("(Cr)", 500000)>>}
            [] b = "ICICI" -> {<<Word("ICICI"), Word("Bank")>>,
                               <<Amt(10000), Amt(0), Amt(90000)>>}

Unparsable(b, l) == ~IsTransactionStart(b, l) /\ ParseTransactionLine(b, l) = Null

(* Line l inserted before line k ends the merged record that spans line k. *)
EndsRecord(k, l) ==
  /\ CleanStops(bank, l)
  /\ \E n \in 1..Len(merged) : merged[n].first < k /\ k <= merged[n].last

RecordCount(text) == Len(NonBlank(text))

NoRecordLost(text) ==
  LET simplifiedText == CleanOCROutputSimplified(bank, text)
  IN /\ Len(CleanRecords(bank, text, 1)) >= Len(merged)
     /\ RecordCount(simplifiedText) >= RecordCount(simplified)
     /\ RecordCount(CategorizeTransactions(bank, simplifiedText))
          >= RecordCount(categorized)

---------------------------------------------------------------------------
(* C19: as stated, parseCategorizedData builds exactly one record from     *)
(* every line categorizeTransactions produced, in order, with an ISO-8601  *)
(* date, a description, a number as amount and the type of the line: as    *)
(* many records are offered for insertion as there are categorized lines.  *)
Offered == pc \in {"saved", "not saved"}

C19_AsStated ==
  Offered =>
    /\ Len(transactions) = Len(OutLines)
    /\ \A n \in 1..Len(transactions) :
         /\ transactions[n].raw_text = OutLines[n]
         /\ transactions[n].date.k = "iso"
         /\ transactions[n].description # <<>>
         /\ transactions[n].amount \in Int
         /\ transactions[n].category = <<TypeWord(OutType(n))>>

(* A Kotak statement of one transaction has been categorized into one      *)
(* line, and parseCategorizedData has built no record from it.             *)
C19_Witness ==
  /\ pc = "not saved" /\ bank = "KOTAK"
  /\ rawText = << <<Date(KotakDate, 1), Word("UPI/SHOP/123"), Word("UPI-123"),
                    AmtAs("(Dr)", 10000), AmtAs("(Cr)", 500000)>> >>
  /\ Len(OutLines) = 1
  /\ OutType(1) = "DEBIT"
  /\ transactions = <<>>
  /\ calls = <<>>
  /\ store = InitialDataStore
  /\ loads = <<>>
  /\ isClient = TRUE
  /\ sinceReset = "none"
  /\ ui = InitialUi
  /\ error = "No valid transactions found to save"

---------------------------------------------------------------------------
(* C20: as stated, no line that matches a personalInfo pattern is among    *)
(* the lines cleanOCROutput of HDFC or Kotak appended to a merged record.  *)
C20_AsStated ==
  (pc # "raw" /\ bank \in {"HDFC", "KOTAK"}) =>
    \A n \in 1..Len(merged) :
      \A i \in (merged[n].first + 1)..merged[n].last :
        ~IsPersonalInfoLine(bank, rawText[i])

(* The HDFC line MR JOHN, a personalInfo line, follows a transaction-start *)
(* line and has been appended to its record.                               *)
C20_Witness ==
  /\ pc # "raw" /\ bank = "HDFC"
  /\ rawText = << <<Date(HdfcDate, 1), Pipe, Word("UPI-SHOP")>>,
                  <<Word("MR"), Word("JOHN")>> >>
  /\ IsPersonalInfoLine(bank, rawText[2])
  /\ Len(merged) = 1
  /\ merged[1].first = 1 /\ merged[1].last = 2
  /\ merged[1].text = rawText[1] \o <<Glue>> \o rawText[2]

---------------------------------------------------------------------------
(* C21: as stated, in cleanOCROutput of every variant a line that is not   *)
(* blank, no header, no transaction start and neither a continuation line  *)
(* nor plausible data ends the record being accumulated: neither that line *)
(* nor a later one is among the lines of the record.                       *)
Unclassified(b, line) ==
  /\ line # Blank
  /\ ~IsHeaderLine(b, line)
  /\ ~IsTransactionStart(b, line)
  /\ ~MatchesContinuation(b, line)

C21_AsStated ==
  Cleaned =>
    \A n \in 1..Len(merged) :
      \A k \in (merged[n].first + 1)..Len(rawText) :
        Unclassified(bank, rawText[k]) => merged[n].last < k

(* An ICICI line of three amounts, which matches none of the continuation  *)
(* patterns, follows a transaction-start line and has been appended to its *)
(* record.                                                                 *)
C21_Witness ==
  /\ Cleaned /\ bank = "ICICI"
  /\ rawText = << <<Date(IciciDate, 1), Date(IciciDate, 1), Word("UPI/SHOP/123")>>,
                  <<Amt(10000), Amt(0), Amt(90000)>> >>
  /\ Unclassified(bank, rawText[2])
  /\ Len(merged) = 1
  /\ merged[1].first = 1 /\ merged[1].last = 2

---------------------------------------------------------------------------
(* C22: as stated, in cleanOCROutput of every variant a merged record is   *)
(* the text of its lines with one space between the last token of a line   *)
(* and the first token of the next: no two lines are fused.                *)
RECURSIVE SpaceJoined(_, _, _)
SpaceJoined(lines, f, l) ==
  IF l <= f THEN lines[f] ELSE SpaceJoined(lines, f, l - 1) \o lines[l]

C22_AsStated ==
  Cleaned =>
    \A n \in 1..Len(merged) :
      /\ merged[n].text = SpaceJoined(rawText, merged[n].first, merged[n].last)
      /\ \A i \in 1..Len(merged[n].text) : merged[n].text[i] # Glue

(* The HDFC continuation line @OKAXIS has been appended to the record of   *)
(* the transaction-start line before it with no space in between.          *)
C22_Witness ==
  /\ Cleaned /\ bank = "HDFC"
  /\ rawText = << <<Date(HdfcDate, 1), Pipe, Word("UPI-SHOP")>>, <<Word("@OKAXIS")>> >>
  /\ Len(merged) = 1
  /\ merged[1].last = 2
  /\ merged[1].text = <<Date(HdfcDate, 1), Pipe, Word("UPI-SHOP"), Glue, Word("@OKAXIS")>>
  /\ LineLength(merged[1].text) = LineLength(rawText[1]) + LineLength(rawText[2])

---------------------------------------------------------------------------
(* C23: in cleanOCROutput of every variant, when the text ends with a      *)
(* transaction-start line (one the outer loop does not skip) followed only *)
(* by lines the inner loop accepts, the last record emitted is the text of *)
(* all of those lines; a text without a transaction-start line gives the   *)
(* empty result.                                                           *)
AccumulatingToEnd(f) ==
  /\ IsTransactionStart(bank, rawText[f])
  /\ ~CleanSkips(bank, rawText[f])
  /\ \A k \in (f + 1)..Len(rawText) :
       ~CleanStops(bank, rawText[k]) /\ CleanAccepts(bank, rawText[k])

C23_LastRecordEmitted ==
  Cleaned =>
    /\ StartLines = {} => (merged = <<>> /\ cleaned = <<>>)
    /\ \A f \in 1..Len(rawText) :
         AccumulatingToEnd(f) =>
           /\ merged # <<>>
           /\ merged[Len(merged)].first = f
           /\ merged[Len(merged)].last = Len(rawText)
           /\ merged[Len(merged)].text = RangeText(bank, rawText, f, Len(rawText))
           /\ cleaned # <<>>
           /\ cleaned[Len(cleaned)] = RangeText(bank, rawText, f, Len(rawText))

(* A Kotak text that ends with a transaction-start line and two            *)
(* continuation lines has been cleaned into one record of the three.       *)
C23_Witness ==
  /\ Cleaned /\ bank = "KOTAK"
  /\ rawText = << <<Date(KotakDate, 1), Word("UPI/SHOP/123")>>,
                  <<Word("/UPIintent")>>,
                  <<Word("UPI-123"), AmtAs("(Dr)", 10000), AmtAs("(Cr)", 500000)>> >>
  /\ AccumulatingToEnd(1)
  /\ Len(merged) = 1
  /\ merged[1].last = 3
  /\ cleaned = <<rawText[1] \o rawText[2] \o rawText[3]>>

---------------------------------------------------------------------------
(* C24: for every variant, the merged records of cleanOCROutput cover      *)
(* ranges of source lines that follow one another, the lines of            *)
(* cleanOCROutputSimplified are the parsed records in the order of the     *)
(* records they come from, and the lines of categorizeTransactions are the *)
(* categorized lines in the order of the simplified lines they come from.  *)
RECURSIVE ParsedInOrder(_, _)
ParsedInOrder(out, recs) ==
  IF recs = <<>> THEN out = <<>>
  ELSE IF ParseTransactionLine(bank, Head(recs)) = Null
    THEN ParsedInOrder(out, Tail(recs))
  ELSE /\ out # <<>>
       /\ Head(out) = ParseTransactionLine(bank, Head(recs))
       /\ ParsedInOrder(Tail(out), Tail(recs))

CategorizedLineOf(i) ==
  CASE bank = "HDFC" -> HdfcCategorizeLine(i, InLines)
    [] bank = "KOTAK" -> KotakCategorizeLine(InLines[i])
    [] bank = "ICICI" -> IciciCategorizeLine(InLines[i])

RECURSIVE CategorizedInOrder(_, _)
CategorizedInOrder(out, i) ==
  IF i > Len(InLines) THEN out = <<>>
  ELSE IF CategorizedLineOf(i) = Null THEN CategorizedInOrder(out, i + 1)
  ELSE /\ out # <<>>
       /\ Head(out) = CategorizedLineOf(i)
       /\ CategorizedInOrder(Tail(out), i + 1)

C24_DocumentOrder ==
  /\ Cleaned =>
       /\ \A n \in 1..(Len(merged) - 1) : merged[n].last < merged[n + 1].first
       /\ NonBlank(cleaned) = RecordTexts(merged)
  /\ Simplified => ParsedInOrder(NonBlank(simplified), ParsedRecords)
  /\ Done => CategorizedInOrder(OutLines, 1)

(* Two ICICI records, a withdrawal and then a deposit, with a line that    *)
(* resolves to nothing between them, have come out of the three operations *)
(* in that order.                                                          *)
C24_Witness ==
  /\ Done /\ bank = "ICICI"
  /\ rawText = << <<AmtAs("int", 100), Date(IciciDate, 1), Date(IciciDate, 1),
                    Word("UPI/SHOP/123"), Amt(10000), Amt(0), Amt(90000)>>,
                  <<Date(IciciDate, 1), Date(IciciDate, 1), Word("UPI/SHOP/123")>>,
                  <<Date(IciciDate, 1), Date(IciciDate, 1), Word("Salary"),
                    Amt(0), Amt(10000), Amt(100000)>> >>
  /\ Len(merged) = 3
  /\ Len(NonBlank(simplified)) = 2
  /\ Len(OutLines) = 2
  /\ OutType(1) = "DEBIT" /\ OutType(2) = "CREDIT"

---------------------------------------------------------------------------
---------------------------------------------------------------------------
---------------------------------------------------------------------------
(* C27: in cleanOCROutput of every variant each input line belongs to at   *)
(* most one merged record, a line appended as a continuation is not        *)
(* visited again by the outer loop as a possible transaction start, and    *)
(* the scan goes on strictly after the line a record started at, so that   *)
(* the merge ends with no more records than input lines.                   *)
ContinuationLines ==
  {k \in 1..Len(rawText) :
     \E n \in 1..Len(merged) : merged[n].first < k /\ k <= merged[n].last}

C27_EachLineInOneRecord ==
  Cleaned =>
    /\ \A k \in 1..Len(rawText) :
         Cardinality({n \in 1..Len(merged) :
                        merged[n].first <= k /\ k <= merged[n].last}) <= 1
    /\ ContinuationLines \cap CleanVisits(bank, rawText, 1) = {}
    /\ \A k \in ContinuationLines : \A n \in 1..Len(merged) : merged[n].first # k
    /\ \A n \in 1..Len(merged) :
         /\ CleanResume(merged[n].first, merged[n]) > merged[n].first
         /\ CleanResume(merged[n].first, merged[n]) <= Len(rawText) + 1
    /\ Len(merged) <= Len(rawText)

(* A record that took a continuation line, followed by a second record.    *)
C27_Witness ==
  /\ Cleaned
  /\ Len(merged) = 2
  /\ merged[1].last > merged[1].first
  /\ merged[2].first = merged[1].last + 1
  /\ ContinuationLines # {}

---------------------------------------------------------------------------
(* C28: as stated, in the client-side data store at most one               *)
(* loadFromDatabase is in flight at any time under every interleaving of   *)
(* getDataStoreAsync, refreshDataFromDatabase, the update functions and    *)
(* resetDataStore, and isLoading is true exactly while a load is in        *)
(* flight.                                                                 *)
ClientLoads == {n \in 1..Len(loads) : loads[n].kind = "client"}

C28_AsStated ==
  (pc = "store" /\ isClient) =>
    /\ Cardinality(ClientLoads) <= 1
    /\ store.isLoading <=> ClientLoads # {}

(* Two loads are in flight, the first from before a resetDataStore, and    *)
(* the second started after it.                                            *)
C28_Witness ==
  /\ pc = "store" /\ isClient
  /\ Len(loads) = 2
  /\ loads[1].kind = "client" /\ loads[1].beforeReset
  /\ loads[2].kind = "client" /\ ~loads[2].beforeReset
  /\ store.isLoading

---------------------------------------------------------------------------
(* C29: as stated, after resetDataStore the fields gstOCROutput,           *)
(* categorizedOutput and pnlOCROutput stay null until an update function   *)
(* is called or a load started after the reset writes its result: a load   *)
(* in flight at the reset does not write into the store.                   *)
C29_AsStated ==
  (pc = "store" /\ sinceReset = "clean") =>
    /\ store.gstOCROutput = NullValue
    /\ store.categorizedOutput = NullValue
    /\ store.pnlOCROutput = NullValue

(* After a reset, with no update and no later load, the store holds the    *)
(* bank data of the database.                                              *)
C29_Witness ==
  /\ pc = "store" /\ sinceReset = "clean"
  /\ loads = <<>>
  /\ store.categorizedOutput = DbValue

---------------------------------------------------------------------------
(* C30: as stated, when handleFileUpload has finished the loading flag is  *)
(* false, and the data store was written and onProcessComplete(true) was   *)
(* reported only if the extraction gave a text that is not empty and the   *)
(* three parser operations completed without an error.                     *)
StoreWritten == store.categorizedOutput # NullValue
ReportedTrue == \E n \in 1..Len(ui.reported) : ui.reported[n]

C30_AsStated ==
  pc = "finished" =>
    /\ ~ui.loading
    /\ (StoreWritten \/ ReportedTrue) =>
         (~IsEmptyText(rawText) /\ error = NoError /\ parser # NoParser)

(* The extraction of a PDF gave an empty text: the handler has finished    *)
(* with the "No text found" message and without reporting success, and     *)
(* the store holds the empty categorized text.                             *)
C30_Witness ==
  /\ pc = "finished"
  /\ parser # NoParser
  /\ IsEmptyText(rawText)
  /\ error = "No text found. Try enabling OCR mode for image-based PDFs."
  /\ ~ui.loading
  /\ ~ReportedTrue
  /\ store.categorizedOutput = Data(<<>>)
  /\ store.lastLoaded = "fresh"

====
